---- MODULE Spec2Model ----
(***************************************************************************)
(* Model of the news sentiment pipeline: the SentimentAnalyzer ensemble    *)
(* (src/src/sentiment_analyzer.py) and the DataManager verdict store       *)
(* (src/src/data_manager.py).                                              *)
(*                                                                         *)
(* Numbers.  Python floats are modelled as exact rationals [n, d] in       *)
(* lowest terms; adapter outputs are drawn from a grid of thousandths.     *)
(* Binary floating-point rounding (an error of one unit in the last place) *)
(* is therefore not part of the model.                                     *)
(***************************************************************************)
EXTENDS Integers, Sequences, FiniteSets, TLC

VARIABLES
    cpc,          \* _ensemble_combine: "call" before, "done" after the call
    cpreds,       \* _ensemble_combine: the predictions mapping it was handed
    cres,         \* _ensemble_combine: what it returned (or that it raised)
    text,         \* analyze: its argument, [none, runs]
    apc,          \* analyze: where the call stands
    cleaned,      \* analyze: cleaned_text
    model_predictions,  \* analyze: the predictions dict of _get_ensemble_predictions
    raw,          \* analyze: what each invoked classifier gave (or that it raised)
    calls,        \* analyze: the classifiers and the combiner, in the order invoked
    verdict,      \* analyze: what analyze returned (or raised)
    db,           \* the committed SQLite database: both tables and their id counters
    today,        \* the calendar day of the clock
    lock,         \* the connection holding SQLite's write lock, or NoConn
    conn,         \* store_analysis: the call frame of each connection
    started,      \* the number of store_analysis calls begun so far
    log,          \* the committed store_analysis calls, in commit order
    utc_skew,     \* the UTC calendar day minus the local calendar day
    answer        \* what the last request to the service returned

cvars == <<cpc, cpreds, cres>>
avars == <<text, apc, cleaned, model_predictions, raw, calls, verdict>>
svars == <<db, today, lock, conn, started, log>>
qvars == <<utc_skew, answer>>
vars == <<cvars, avars, svars, qvars>>

----------------------------------------------------------------------------
(* Exact rational arithmetic standing for float arithmetic.                *)

Abs(x) == IF x < 0 THEN -x ELSE x

RECURSIVE GCD(_, _)
GCD(a, b) == IF b = 0 THEN a ELSE GCD(b, a % b)

Rat(n, d) == LET g == GCD(Abs(n), d) IN [n |-> n \div g, d |-> d \div g]

Milli(k) == Rat(k, 1000)
RZero == Rat(0, 1)
ROne == Rat(1, 1)
RAdd(x, y) == Rat(x.n * y.d + y.n * x.d, x.d * y.d)
RSub(x, y) == Rat(x.n * y.d - y.n * x.d, x.d * y.d)
RMul(x, y) == Rat(x.n * y.n, x.d * y.d)
RDiv(x, y) == Rat(x.n * y.d, x.d * y.n)
RLt(x, y) == x.n * y.d < y.n * x.d
RLe(x, y) == x.n * y.d <= y.n * x.d
RMax(x, y) == IF RLt(x, y) THEN y ELSE x
RMin(x, y) == IF RLt(y, x) THEN y ELSE x
RAbs(x) == [n |-> Abs(x.n), d |-> x.d]
RNeg(x) == [n |-> -x.n, d |-> x.d]

----------------------------------------------------------------------------
(* Config and the combiner's tables.                                       *)

\* Config.CONFIDENCE_THRESHOLD = 0.6
CONFIDENCE_THRESHOLD == Rat(6, 10)

\* The keys of combined_scores, in the order the dict literal lists them.
Classes == <<"positive", "negative", "neutral">>
ClassSet == {"positive", "negative", "neutral"}

\* weights.get(model_name, 0.1)
Weight(model_name) ==
    CASE model_name = "roberta" -> Rat(40, 100)
      [] model_name = "finbert" -> Rat(30, 100)
      [] model_name = "vader" -> Rat(20, 100)
      [] model_name = "textblob" -> Rat(10, 100)
      [] OTHER -> Rat(1, 10)

\* The order in which _get_ensemble_predictions inserts into the dict; a
\* model of any other name comes last.
ModelOrder == <<"roberta", "finbert", "vader", "textblob", "custom">>
ModelNames == {ModelOrder[i] : i \in DOMAIN ModelOrder}

\* The fixed verdict of the too-short and the empty-ensemble paths.
FallbackScores ==
    [c \in ClassSet |-> IF c = "neutral" THEN Milli(340) ELSE Milli(330)]

----------------------------------------------------------------------------
(* Python dicts keep insertion order: a dict is a sequence of [k, v] items *)
(* with distinct keys.                                                     *)

DictKeys(d) == {d[i].k : i \in DOMAIN d}
DictGet(d, key) == (d[CHOOSE i \in DOMAIN d : d[i].k = key]).v
DictGetOr(d, key, default) == IF key \in DictKeys(d) THEN DictGet(d, key) ELSE default
\* d[key] = value: an existing key keeps its place, a new one goes last.
DictSet(d, key, value) ==
    IF key \in DictKeys(d)
    THEN [i \in DOMAIN d |-> IF d[i].k = key THEN [k |-> key, v |-> value] ELSE d[i]]
    ELSE Append(d, [k |-> key, v |-> value])

\* max(d, key=d.get): the first key, in iteration order, that no key exceeds.
MaxKey(d) ==
    (d[CHOOSE i \in DOMAIN d :
          /\ \A j \in DOMAIN d : RLe(d[j].v, d[i].v)
          /\ \A j \in DOMAIN d : j < i => RLt(d[j].v, d[i].v)]).k

----------------------------------------------------------------------------
(* The classifier adapters' normalizers.                                   *)

\* str.lower() on the label vocabulary of the model.
Lower(label) ==
    CASE label = "LABEL_0" -> "label_0"
      [] label = "LABEL_1" -> "label_1"
      [] label = "LABEL_2" -> "label_2"
      [] label = "Positive" -> "positive"
      [] label = "Negative" -> "negative"
      [] label = "Neutral" -> "neutral"
      [] label = "Mixed" -> "mixed"
      [] OTHER -> label

\* {item['label'].lower(): item['score'] for item in result}
RECURSIVE LabelScores(_, _, _)
LabelScores(result, i, acc) ==
    IF i > Len(result) THEN acc
    ELSE LabelScores(result, i + 1, DictSet(acc, Lower(result[i].label), result[i].score))

\* label_mapping.get(label, label)
label_mapping_standard_only(label) ==
    CASE label = "label_0" -> "negative"
      [] label = "label_1" -> "neutral"
      [] label = "label_2" -> "positive"
      [] label \in {"negative", "neutral", "positive"} -> label
      [] OTHER -> "neutral"
label_mapping(label) ==
    CASE label = "label_0" -> "negative"
      [] label = "label_1" -> "neutral"
      [] label = "label_2" -> "positive"
      [] OTHER -> label

RECURSIVE MapLabels(_, _, _)
MapLabels(scores, i, acc) ==
    IF i > Len(scores) THEN acc
    ELSE MapLabels(scores, i + 1, DictSet(acc, label_mapping(scores[i].k), scores[i].v))

normalize_roberta_output(result) ==
    LET scores == LabelScores(result, 1, <<>>)
        normalized_scores == MapLabels(scores, 1, <<>>)
        sentiment == MaxKey(normalized_scores)
    IN [sentiment |-> sentiment,
        confidence |-> DictGet(normalized_scores, sentiment),
        scores |-> normalized_scores]

normalize_finbert_output(result) ==
    LET scores == LabelScores(result, 1, <<>>)
        sentiment == MaxKey(scores)
    IN [sentiment |-> sentiment,
        confidence |-> DictGet(scores, sentiment),
        scores |-> scores]

\* vader_scores: [compound, pos, neu, neg], each a rational.
VaderScores(vader_scores) ==
    LET total == RAdd(RAdd(vader_scores.pos, vader_scores.neu), vader_scores.neg)
        part(x) == IF RLt(RZero, total) THEN RDiv(x, total) ELSE RZero
    IN <<[k |-> "positive", v |-> part(vader_scores.pos)],
         [k |-> "neutral", v |-> part(vader_scores.neu)],
         [k |-> "negative", v |-> part(vader_scores.neg)]>>

normalize_vader_output_strict(vader_scores) ==
    LET compound == vader_scores.compound
        sentiment == IF RLt(Milli(50), compound) THEN "positive"
                     ELSE IF RLt(compound, Milli(-50)) THEN "negative"
                     ELSE "neutral"
        confidence == IF sentiment = "neutral" THEN RSub(ROne, RAbs(compound))
                      ELSE RAbs(compound)
    IN [sentiment |-> sentiment,
        confidence |-> confidence,
        scores |-> VaderScores(vader_scores)]
normalize_vader_output(vader_scores) ==
    LET compound == vader_scores.compound
        sentiment == IF RLe(Milli(50), compound) THEN "positive"
                     ELSE IF RLe(compound, Milli(-50)) THEN "negative"
                     ELSE "neutral"
        confidence == IF sentiment = "neutral" THEN RSub(ROne, RAbs(compound))
                      ELSE RAbs(compound)
    IN [sentiment |-> sentiment,
        confidence |-> confidence,
        scores |-> VaderScores(vader_scores)]

normalize_textblob_output_inclusive(polarity) ==
    LET sentiment == IF RLe(Milli(100), polarity) THEN "positive"
                     ELSE IF RLe(polarity, Milli(-100)) THEN "negative"
                     ELSE "neutral"
        confidence == IF sentiment = "neutral" THEN RSub(ROne, RAbs(polarity))
                      ELSE RMin(RAbs(polarity), ROne)
        pos_score == RMax(RZero, polarity)
        neg_score == RMax(RZero, RNeg(polarity))
        neu_score == RSub(RSub(ROne, pos_score), neg_score)
    IN [sentiment |-> sentiment,
        confidence |-> confidence,
        scores |-> <<[k |-> "positive", v |-> pos_score],
                     [k |-> "neutral", v |-> neu_score],
                     [k |-> "negative", v |-> neg_score]>>]
normalize_textblob_output(polarity) ==
    LET sentiment == IF RLt(Milli(100), polarity) THEN "positive"
                     ELSE IF RLt(polarity, Milli(-100)) THEN "negative"
                     ELSE "neutral"
        confidence == IF sentiment = "neutral" THEN RSub(ROne, RAbs(polarity))
                      ELSE RMin(RAbs(polarity), ROne)
        pos_score == RMax(RZero, polarity)
        neg_score == RMax(RZero, RNeg(polarity))
        neu_score == RSub(RSub(ROne, pos_score), neg_score)
    IN [sentiment |-> sentiment,
        confidence |-> confidence,
        scores |-> <<[k |-> "positive", v |-> pos_score],
                     [k |-> "neutral", v |-> neu_score],
                     [k |-> "negative", v |-> neg_score]>>]

----------------------------------------------------------------------------
(* SentimentAnalyzer._ensemble_combine                                     *)

\* predictions.items(): the models present, in insertion order.
PresentOrder(predictions) ==
    SelectSeq(ModelOrder, LAMBDA m : m \in DOMAIN predictions)

\* for sentiment, score in prediction['scores'].items():
\*     combined_scores[sentiment] += score * weight
\* A label that is no key of combined_scores raises KeyError.
RECURSIVE AddScores(_, _, _, _)
AddScores(items, i, weight, acc) ==
    IF i > Len(items) \/ acc.raised THEN acc
    ELSE IF items[i].k \notin ClassSet
         THEN [acc EXCEPT !.raised = TRUE]
         ELSE AddScores(items, i + 1, weight,
                  [acc EXCEPT !.combined_scores[items[i].k] =
                                  RAdd(@, RMul(items[i].v, weight))])

\* for model_name, prediction in predictions.items(): ...
RECURSIVE CombineLoop(_, _, _, _)
CombineLoop(predictions, order, i, acc) ==
    IF i > Len(order) \/ acc.raised THEN acc
    ELSE LET weight == Weight(order[i])
             added == [acc EXCEPT !.total_weight = RAdd(@, weight)]
         IN CombineLoop(predictions, order, i + 1,
                AddScores(predictions[order[i]].scores, 1, weight, added))

\* if total_weight > 0: combined_scores[sentiment] /= total_weight
NormalizeByFullTable(acc) ==
    [c \in ClassSet |-> acc.combined_scores[c]]
NormalizeCombined(acc) ==
    IF RLt(RZero, acc.total_weight)
    THEN [c \in ClassSet |-> RDiv(acc.combined_scores[c], acc.total_weight)]
    ELSE acc.combined_scores

\* max(combined_scores, key=combined_scores.get)
ArgMaxNoKey(combined_scores) == "positive"
ArgMaxClass(combined_scores) ==
    MaxKey([i \in DOMAIN Classes |-> [k |-> Classes[i], v |-> combined_scores[Classes[i]]]])

\* if confidence < Config.CONFIDENCE_THRESHOLD:
\*     final_sentiment = 'neutral'; confidence = max(combined_scores['neutral'], 0.5)
ApplyThresholdNeutralScore(final_sentiment, confidence, combined_scores) ==
    IF RLt(confidence, CONFIDENCE_THRESHOLD)
    THEN [sentiment |-> "neutral", confidence |-> combined_scores["neutral"]]
    ELSE [sentiment |-> final_sentiment, confidence |-> confidence]
ApplyThresholdNoOverride(final_sentiment, confidence, combined_scores) ==
    [sentiment |-> final_sentiment, confidence |-> confidence]
ApplyThresholdKeepConfidence(final_sentiment, confidence, combined_scores) ==
    IF RLt(confidence, CONFIDENCE_THRESHOLD)
    THEN [sentiment |-> "neutral", confidence |-> confidence]
    ELSE [sentiment |-> final_sentiment, confidence |-> confidence]
ApplyThreshold(final_sentiment, confidence, combined_scores) ==
    IF RLt(confidence, CONFIDENCE_THRESHOLD)
    THEN [sentiment |-> "neutral",
          confidence |-> RMax(combined_scores["neutral"], Rat(5, 10))]
    ELSE [sentiment |-> final_sentiment, confidence |-> confidence]

\* _ensemble_combine past its first statement: the weighted combination.
CombineNonEmpty(predictions) ==
    LET acc == CombineLoop(predictions, PresentOrder(predictions), 1,
                   [raised |-> FALSE, total_weight |-> RZero,
                    combined_scores |-> [c \in ClassSet |-> RZero]])
        combined_scores == NormalizeCombined(acc)
        final_sentiment == ArgMaxClass(combined_scores)
        final == ApplyThreshold(final_sentiment, combined_scores[final_sentiment],
                                combined_scores)
    IN IF acc.raised
       THEN [kind |-> "KeyError"]
       ELSE [kind |-> "ok", sentiment |-> final.sentiment,
             confidence |-> final.confidence, scores |-> combined_scores]

\* The value returned, or the KeyError raised, by _ensemble_combine.
ensemble_combine_unguarded(predictions) == CombineNonEmpty(predictions)
ensemble_combine(predictions) ==
    IF DOMAIN predictions = {}
    THEN [kind |-> "ok", sentiment |-> "neutral", confidence |-> Rat(5, 10),
          scores |-> FallbackScores]
    ELSE CombineNonEmpty(predictions)

----------------------------------------------------------------------------
(* DataManager: the two tables and store_analysis.                         *)
(*                                                                         *)
(* Each store_analysis call opens its own connection.  SQLite lets one     *)
(* connection write at a time: the first write of a transaction takes the  *)
(* write lock, which commit and rollback release; what the transaction     *)
(* wrote is seen by others only once it is committed.  A connection that   *)
(* finds the lock taken waits, and raises "database is locked" when its    *)
(* timeout runs out.                                                       *)

Conns == {"c1", "c2"}
NoConn == "none"

MaxCalls == 2
MaxDay == 2

NULL == "NULL"

EmptyDb == [results |-> <<>>, summary |-> {}, seq_results |-> 0, seq_summary |-> 0]

\* The analysed articles store_analysis is called with; the title of the
\* last one is None.
Article(title, sentiment, confidence) ==
    [title |-> title, sentiment |-> sentiment, confidence |-> Milli(confidence)]
Batches ==
    {<<>>,
     <<Article("t1", "positive", 900)>>,
     <<Article("t1", "positive", 900), Article("t2", "negative", 700)>>,
     <<Article("t2", "negative", 700), Article(NULL, "neutral", 500)>>}
\* The calls made: every batch under one keywords value, one batch under
\* another.
Requests ==
    {[keywords |-> "ai", articles |-> b] : b \in Batches}
        \cup {[keywords |-> "ai news", articles |-> <<Article("t3", "neutral", 400)>>]}
Keywords == {r.keywords : r \in Requests}

\* INSERT INTO analysis_results ...: the columns the model keeps; id is
\* AUTOINCREMENT, created_at is CURRENT_TIMESTAMP.
ResultRow(id, keywords, article, created_at) ==
    [id |-> id, keywords |-> keywords, title |-> article.title,
     sentiment |-> article.sentiment, confidence |-> article.confidence,
     created_at |-> created_at]

\* title TEXT NOT NULL
ViolatesNotNull(article) == article.title = NULL

InsertResultOverLast(d, keywords, article, created_at) ==
    [d EXCEPT !.results = <<ResultRow(d.seq_results + 1, keywords, article, created_at)>>,
              !.seq_results = @ + 1]
InsertResult(d, keywords, article, created_at) ==
    [d EXCEPT !.results = Append(@, ResultRow(d.seq_results + 1, keywords, article, created_at)),
              !.seq_results = @ + 1]

\* len([a for a in articles if a.get('sentiment') == s])
CountSentiment(articles, s) == Len(SelectSeq(articles, LAMBDA a : a.sentiment = s))

\* sum([a.get('confidence', 0) for a in articles]) / len(articles) if articles else 0
RECURSIVE SumConfidence(_)
SumConfidence(articles) ==
    IF articles = <<>> THEN RZero
    ELSE RAdd(Head(articles).confidence, SumConfidence(Tail(articles)))
AvgConfidence(articles) ==
    IF articles # <<>> THEN RDiv(SumConfidence(articles), Rat(Len(articles), 1)) ELSE RZero

\* INSERT OR REPLACE INTO analysis_summary under UNIQUE(keywords, date): the
\* row in conflict is deleted, the new row gets a fresh id.
InsertSummaryKeepingOld(d, row) ==
    [d EXCEPT !.summary = @ \cup {[row EXCEPT !.id = d.seq_summary + 1]},
              !.seq_summary = @ + 1]
InsertOrReplaceSummary(d, row) ==
    [d EXCEPT !.summary = {r \in @ : ~(r.keywords = row.keywords /\ r.date = row.date)}
                              \cup {[row EXCEPT !.id = d.seq_summary + 1]},
              !.seq_summary = @ + 1]

\* DataManager._update_summary
update_summary(d, keywords, articles, date) ==
    InsertOrReplaceSummary(d,
        [id |-> 0, keywords |-> keywords, date |-> date,
         total_articles |-> Len(articles),
         positive_count |-> CountSentiment(articles, "positive"),
         negative_count |-> CountSentiment(articles, "negative"),
         neutral_count |-> CountSentiment(articles, "neutral"),
         avg_confidence |-> AvgConfidence(articles)])

IdleFrame ==
    [pc |-> "idle", keywords |-> "", articles |-> <<>>, i |-> 1, work |-> EmptyDb,
     stamps |-> <<>>, date |-> 0, ret |-> FALSE, began |-> 0]

\* The frame once the with block is left: the connection and its cursor are
\* gone, the return value is set.
Closed(f, value) ==
    [f EXCEPT !.pc = "done", !.ret = value, !.work = EmptyDb, !.stamps = <<>>, !.date = 0]

\* Whether connection p may write: the write lock is free or its own.
MayWriteUnlocked(p) == TRUE
MayWrite(p) == lock \in {NoConn, p}

\* The transaction's view when p writes: its own uncommitted state if it
\* holds the lock, the committed database if it takes the lock now.
View(p) == IF lock = p THEN conn[p].work ELSE db

\* The with block left by an exception: the connection rolls back.
ExitKeepsWrites(p) == IF lock = p THEN conn[p].work ELSE db
ExitWithException(p) == db

\* Connections are nameless: a call takes the first name not in use.
FirstFree(p) == p = "c1" \/ conn["c1"].pc # "idle"

\* store_analysis(keywords, articles) is called.
StoreCall(p) ==
    /\ conn[p].pc = "idle"
    /\ FirstFree(p)
    /\ started < MaxCalls
    /\ started' = started + 1
    /\ \E r \in Requests :
         conn' = [conn EXCEPT ![p] =
                     [IdleFrame EXCEPT !.pc = IF r.articles = <<>> THEN "summary" ELSE "insert",
                                       !.keywords = r.keywords, !.articles = r.articles,
                                       !.began = Len(log)]]
    /\ UNCHANGED <<db, today, lock, log, cvars, avars, qvars>>

\* created_at TIMESTAMP DEFAULT CURRENT_TIMESTAMP: the UTC day, where
\* datetime.now() gives the local one.
CURRENT_TIMESTAMP == today + utc_skew

\* One pass of the for loop: cursor.execute('INSERT INTO analysis_results ...').
InsertArticle(p) ==
    /\ conn[p].pc = "insert"
    /\ MayWrite(p)
    /\ LET f == conn[p]
           article == f.articles[f.i]
       IN IF ViolatesNotNull(article)
          THEN \* sqlite3.IntegrityError: rollback, return False
               /\ db' = ExitWithException(p)
               /\ lock' = IF lock = p THEN NoConn ELSE lock
               /\ conn' = [conn EXCEPT ![p] = Closed(conn[p], FALSE)]
          ELSE /\ lock' = p
               /\ conn' = [conn EXCEPT
                     ![p].work = InsertResult(View(p), f.keywords, article, CURRENT_TIMESTAMP),
                     ![p].stamps = Append(f.stamps, CURRENT_TIMESTAMP),
                     ![p].i = f.i + 1,
                     ![p].pc = IF f.i = Len(f.articles) THEN "summary" ELSE "insert"]
               /\ UNCHANGED db
    /\ UNCHANGED <<today, started, log, cvars, avars, qvars>>

\* self._update_summary(cursor, keywords, articles)
UpdateSummary(p) ==
    /\ conn[p].pc = "summary"
    /\ MayWrite(p)
    /\ lock' = p
    /\ conn' = [conn EXCEPT
          ![p].work = update_summary(View(p), conn[p].keywords, conn[p].articles, today),
          ![p].date = today,
          ![p].pc = "commit"]
    /\ UNCHANGED <<db, today, started, log, cvars, avars, qvars>>

\* conn.commit(); return True
Commit(p) ==
    /\ conn[p].pc = "commit"
    /\ db' = conn[p].work
    /\ lock' = NoConn
    /\ conn' = [conn EXCEPT ![p] = Closed(conn[p], TRUE)]
    /\ log' = Append(log, [conn |-> p, keywords |-> conn[p].keywords,
                           articles |-> conn[p].articles, stamps |-> conn[p].stamps,
                           date |-> conn[p].date])
    /\ UNCHANGED <<today, started, cvars, avars, qvars>>

\* A statement of the with block raises (an I/O error, or "database is
\* locked" after waiting for the write lock): the connection rolls back and
\* the except clause returns False.
StoreFail(p) ==
    /\ conn[p].pc \in {"insert", "summary", "commit"}
    /\ db' = ExitWithException(p)
    /\ lock' = IF lock = p THEN NoConn ELSE lock
    /\ conn' = [conn EXCEPT ![p] = Closed(conn[p], FALSE)]
    /\ UNCHANGED <<today, started, log, cvars, avars, qvars>>

\* The caller has the return value; the connection object is dropped.
StoreReturn(p) ==
    /\ conn[p].pc = "done"
    /\ started < MaxCalls
    /\ conn' = [conn EXCEPT ![p] = IdleFrame]
    /\ UNCHANGED <<db, today, lock, started, log, cvars, avars, qvars>>

\* Midnight passes.
Tick ==
    /\ today < MaxDay
    /\ today' = today + 1
    /\ UNCHANGED <<db, lock, conn, started, log, cvars, avars, qvars>>

\* No request has been answered; the local day is the UTC day.
NoAnswer == [op |-> "none"]
QueryIdle ==
    /\ utc_skew = 0
    /\ answer = NoAnswer

StoreInit ==
    /\ db = EmptyDb
    /\ today = 1
    /\ lock = NoConn
    /\ conn = [p \in Conns |-> IdleFrame]
    /\ started = 0
    /\ log = <<>>

----------------------------------------------------------------------------
(* The combiner on its own: every mapping of at most MaxPresent models to  *)
(* a verdict built from one of the native results below.                   *)

MaxPresent == 3

Native3(p, n, u) ==
    <<[label |-> "positive", score |-> Milli(p)],
      [label |-> "negative", score |-> Milli(n)],
      [label |-> "neutral", score |-> Milli(u)]>>

NativeResults ==
    {Native3(900, 0, 100), Native3(800, 0, 200), Native3(0, 500, 500),
     Native3(500, 300, 200), Native3(550, 200, 250), Native3(600, 400, 0),
     Native3(100, 700, 200), Native3(0, 0, 0), Native3(400, 400, 200),
     <<[label |-> "positive", score |-> Milli(700)],
       [label |-> "negative", score |-> Milli(100)],
       [label |-> "mixed", score |-> Milli(200)]>>}

CombinerInputs ==
    UNION {[present -> {normalize_finbert_output(r) : r \in NativeResults}] :
               present \in {S \in SUBSET ModelNames : Cardinality(S) <= MaxPresent}}

NoResult == [kind |-> "none"]

\* The analyzer when no analyze call is modelled.
AnalyzerIdle ==
    /\ text = [none |-> TRUE, runs |-> <<>>]
    /\ apc = "idle"
    /\ cleaned = <<>>
    /\ model_predictions = <<>>
    /\ raw = <<>>
    /\ calls = <<>>
    /\ verdict = NoResult

CombineInit ==
    /\ cpc = "call"
    /\ cpreds \in CombinerInputs
    /\ cres = NoResult
    /\ AnalyzerIdle
    /\ StoreInit
    /\ QueryIdle

EnsembleCombine ==
    /\ cpc = "call"
    /\ cres' = ensemble_combine(cpreds)
    /\ cpc' = "done"
    /\ UNCHANGED <<cpreds, avars, svars, qvars>>

CombineNext == EnsembleCombine

SpecCombine == CombineInit /\ [][CombineNext]_vars

----------------------------------------------------------------------------
(* Properties of _ensemble_combine (specification SpecCombine).            *)

\* Every score label of every verdict is one of the three classes.
StandardLabels(predictions) ==
    \A m \in DOMAIN predictions : DictKeys(predictions[m].scores) \subseteq ClassSet

\* The largest of the three combined class scores.
TopScore(scores) ==
    CHOOSE x \in {scores[c] : c \in ClassSet} : \A c \in ClassSet : RLe(scores[c], x)

Returned == cpc = "done" /\ cpreds # <<>> /\ StandardLabels(cpreds)

SingleModel(m, native) ==
    cpc = "done" /\ cpreds = [x \in {m} |-> normalize_finbert_output(native)]

\* C1: on a non-empty mapping, a largest combined score below 0.6 gives
\* 'neutral' with confidence max(combined neutral, 0.5); a largest combined
\* score of at least 0.6 leaves the argmax class and its score as they are.
\* A lone model with positive 0.5 gives 'neutral'; combined scores
\* {0.55, 0.2, 0.25} give 'neutral' with confidence 0.5.
C1_ThresholdOverride ==
    /\ Returned =>
         /\ cres.kind = "ok"
         /\ LET top == TopScore(cres.scores)
            IN IF RLt(top, Rat(6, 10))
               THEN /\ cres.sentiment = "neutral"
                    /\ cres.confidence = RMax(cres.scores["neutral"], Rat(1, 2))
               ELSE /\ cres.scores[cres.sentiment] = top
                    /\ cres.confidence = top
    /\ \A m \in ModelNames :
         /\ SingleModel(m, Native3(500, 300, 200)) => cres.sentiment = "neutral"
         /\ SingleModel(m, Native3(550, 200, 250)) =>
              /\ cres.scores = [c \in ClassSet |->
                                   CASE c = "positive" -> Milli(550)
                                     [] c = "negative" -> Milli(200)
                                     [] c = "neutral" -> Milli(250)]
              /\ cres.sentiment = "neutral"
              /\ cres.confidence = Rat(1, 2)

\* C1 witness: the override has fired on a mapping whose argmax is positive.
C1_Witness ==
    /\ Returned
    /\ cres.kind = "ok"
    /\ Cardinality(DOMAIN cpreds) = 2
    /\ RLt(TopScore(cres.scores), Rat(6, 10))
    /\ cres.scores["positive"] = TopScore(cres.scores)
    /\ RLt(cres.scores["neutral"], cres.scores["positive"])
    /\ cres.sentiment = "neutral"

\* C2: a returned verdict is in exactly one of two cases: (a) the override
\* did not fire, the sentiment is a class of largest combined score and the
\* confidence is that score; (b) the largest combined score is below 0.6 and
\* the sentiment is 'neutral'.
C2_ArgmaxUnlessOverride ==
    Returned =>
      /\ cres.kind = "ok"
      /\ LET top == TopScore(cres.scores)
             caseA == /\ ~RLt(top, Rat(6, 10))
                      /\ \A c \in ClassSet : RLe(cres.scores[c], cres.scores[cres.sentiment])
                      /\ cres.confidence = cres.scores[cres.sentiment]
             caseB == /\ RLt(top, Rat(6, 10))
                      /\ cres.sentiment = "neutral"
         IN (caseA \/ caseB) /\ ~(caseA /\ caseB)

\* C2 witness: a verdict of case (a) whose winning class is negative.
C2_Witness ==
    /\ Returned
    /\ cres.kind = "ok"
    /\ cres.sentiment = "negative"
    /\ cres.confidence = TopScore(cres.scores)
    /\ Cardinality(DOMAIN cpreds) = 3

\* The weight table as the claim states it.
ClaimWeight(m) ==
    CASE m = "roberta" -> Milli(400)
      [] m = "finbert" -> Milli(300)
      [] m = "vader" -> Milli(200)
      [] m = "textblob" -> Milli(100)
      [] OTHER -> Milli(100)

\* Sum of g over the model names, written out.
WeightedMean(predictions, c) ==
    LET w(m) == IF m \in DOMAIN predictions THEN ClaimWeight(m) ELSE RZero
        num(m) == IF m \in DOMAIN predictions
                  THEN RMul(ClaimWeight(m), DictGetOr(predictions[m].scores, c, RZero))
                  ELSE RZero
        numerator == RAdd(num("roberta"), RAdd(num("finbert"), RAdd(num("vader"),
                         RAdd(num("textblob"), num("custom")))))
        denominator == RAdd(w("roberta"), RAdd(w("finbert"), RAdd(w("vader"),
                           RAdd(w("textblob"), w("custom")))))
    IN RDiv(numerator, denominator)

\* C3: combined[c] is the weighted mean of the present models' scores for c
\* over the sum of the present models' weights (0.40, 0.30, 0.20, 0.10, and
\* 0.1 for any other name); a lone model's scores come back unchanged;
\* roberta 0.9 + finbert 0.8 + vader 0 on positive give 2/3 and 'positive'.
C3_WeightedMean ==
    /\ Returned =>
         /\ cres.kind = "ok"
         /\ \A c \in ClassSet : cres.scores[c] = WeightedMean(cpreds, c)
         /\ \A m \in ModelNames :
              DOMAIN cpreds = {m} =>
                \A c \in ClassSet : cres.scores[c] = DictGetOr(cpreds[m].scores, c, RZero)
    /\ ( /\ cpc = "done"
         /\ cpreds = [m \in {"roberta", "finbert", "vader"} |->
                        normalize_finbert_output(
                            CASE m = "roberta" -> Native3(900, 0, 100)
                              [] m = "finbert" -> Native3(800, 0, 200)
                              [] m = "vader" -> Native3(0, 500, 500))] )
       => (cres.scores["positive"] = Rat(2, 3) /\ cres.sentiment = "positive")

\* C3 witness: three models, one of them of an unlisted name, combined into
\* scores that are none of the inputs' own.
C3_Witness ==
    /\ Returned
    /\ cres.kind = "ok"
    /\ DOMAIN cpreds = {"roberta", "vader", "custom"}
    /\ \A m \in DOMAIN cpreds :
         \E c \in ClassSet : cres.scores[c] # DictGetOr(cpreds[m].scores, c, RZero)
    /\ cres.scores["positive"] = Rat(55, 70)

----------------------------------------------------------------------------
(* Text.  A Python str is kept run-length encoded: a sequence of runs      *)
(* [c, n] (character c repeated n >= 1 times) in which neighbouring runs   *)
(* differ in c.  The alphabet holds one generic letter "a", the letters of *)
(* the URL scheme, two whitespace characters and five punctuation marks.   *)

WhitespaceChars == {" ", "\n"}
WordChars == {"a", "h", "t", "p", "s"}
\* [^\w\s.,!?;:-] keeps these besides word characters and whitespace
KeptPunctuation == {".", ",", "!", "?", ";", ":", "-"}
\* [a-zA-Z] | [0-9] | [$-_@.&+] | [!*\(\),] | %XX, on the alphabet
UrlChars == WordChars \cup {".", ":", "/", "@", "!"}
Alphabet == WordChars \cup WhitespaceChars \cup {".", ":", "/", "@", "!", "#"}

Run(c, n) == [c |-> c, n |-> n]

\* Drops empty runs and merges neighbours of the same character.
RECURSIVE Norm(_)
Norm(t) ==
    IF t = <<>> THEN <<>>
    ELSE LET rest == Norm(Tail(t))
             r == Head(t)
         IN IF r.n = 0 THEN rest
            ELSE IF rest # <<>> /\ rest[1].c = r.c
                 THEN <<Run(r.c, r.n + rest[1].n)>> \o Tail(rest)
                 ELSE <<r>> \o rest

\* len(text)
RECURSIVE TLen(_)
TLen(t) == IF t = <<>> THEN 0 ELSE Head(t).n + TLen(Tail(t))

\* text[:k]
RECURSIVE Prefix(_, _)
Prefix(t, k) ==
    IF t = <<>> \/ k <= 0 THEN <<>>
    ELSE IF Head(t).n >= k THEN <<Run(Head(t).c, k)>>
         ELSE <<Head(t)>> \o Prefix(Tail(t), k - Head(t).n)

\* text.strip()
RECURSIVE LStrip(_)
LStrip(t) ==
    IF t # <<>> /\ Head(t).c \in WhitespaceChars THEN LStrip(Tail(t)) ELSE t
RECURSIVE RStrip(_)
RStrip(t) ==
    IF t # <<>> /\ t[Len(t)].c \in WhitespaceChars
    THEN RStrip(SubSeq(t, 1, Len(t) - 1)) ELSE t
Strip(t) == RStrip(LStrip(t))

\* The first run at or after i whose character is not in class, or Len(t) + 1.
RECURSIVE SkipWhile(_, _, _)
SkipWhile(t, i, class) ==
    IF i <= Len(t) /\ t[i].c \in class THEN SkipWhile(t, i + 1, class) ELSE i

\* Whether http[s]?://(?:...)+ matches starting at the last "h" of run i;
\* when it does, UrlBodyStart is the run holding the "//".
UrlSlashRun(t, i) ==
    IF i + 3 <= Len(t) /\ t[i + 3].c = "s" THEN i + 5 ELSE i + 4
UrlMatchAt(t, i) ==
    LET k == UrlSlashRun(t, i)
    IN /\ k <= Len(t)
       /\ t[i].c = "h"
       /\ t[i + 1] = Run("t", 2)
       /\ t[i + 2] = Run("p", 1)
       /\ (k = i + 5 => t[i + 3] = Run("s", 1))
       /\ t[k - 1] = Run(":", 1)
       /\ t[k].c = "/" /\ t[k].n >= 2
       /\ (t[k].n >= 3 \/ (k + 1 <= Len(t) /\ t[k + 1].c \in UrlChars))

\* re.sub(r'http[s]?://(?:...)+', '', text)
RECURSIVE RemoveUrlsFrom(_, _)
RemoveUrlsFrom(t, i) ==
    IF i > Len(t) THEN <<>>
    ELSE IF UrlMatchAt(t, i)
         THEN <<Run("h", t[i].n - 1)>>
                  \o RemoveUrlsFrom(t, SkipWhile(t, UrlSlashRun(t, i), UrlChars))
         ELSE <<t[i]>> \o RemoveUrlsFrom(t, i + 1)
RemoveUrls(t) == Norm(RemoveUrlsFrom(t, 1))

\* Whether the block of non-whitespace runs i..j-1 has an "@" that is neither
\* its first nor its last character: \S+@\S+ then matches the whole block.
RECURSIVE HasInnerAt(_, _, _, _, _)
HasInnerAt(t, i, j, offset, total) ==
    IF i >= j THEN FALSE
    ELSE \/ /\ t[i].c = "@"
            /\ (IF offset + 1 > 2 THEN offset + 1 ELSE 2)
                 <= (IF offset + t[i].n < total - 1 THEN offset + t[i].n ELSE total - 1)
         \/ HasInnerAt(t, i + 1, j, offset + t[i].n, total)

\* re.sub(r'\S+@\S+', '', text)
RECURSIVE RemoveEmailsFrom(_, _)
RemoveEmailsFrom(t, i) ==
    IF i > Len(t) THEN <<>>
    ELSE IF t[i].c \in WhitespaceChars THEN <<t[i]>> \o RemoveEmailsFrom(t, i + 1)
         ELSE LET j == SkipWhile(t, i, Alphabet \ WhitespaceChars)
                  block == SubSeq(t, i, j - 1)
              IN (IF HasInnerAt(t, i, j, 0, TLen(block)) THEN <<>> ELSE block)
                     \o RemoveEmailsFrom(t, j)
RemoveEmails(t) == Norm(RemoveEmailsFrom(t, 1))

\* re.sub(r'\s+', ' ', text)
RECURSIVE CollapseFrom(_, _)
CollapseFrom(t, i) ==
    IF i > Len(t) THEN <<>>
    ELSE IF t[i].c \in WhitespaceChars
         THEN <<Run(" ", 1)>> \o CollapseFrom(t, SkipWhile(t, i, WhitespaceChars))
         ELSE <<t[i]>> \o CollapseFrom(t, i + 1)
CollapseWhitespace(t) == Norm(CollapseFrom(t, 1))

\* re.sub(r'[^\w\s.,!?;:-]', '', text)
RemoveSpecial(t) ==
    Norm(SelectSeq(t, LAMBDA r : r.c \in WordChars \cup WhitespaceChars \cup KeptPunctuation))

\* text.split('.'): a sequence of texts.
RECURSIVE SplitDots(_, _, _)
SplitDots(t, i, current) ==
    IF i > Len(t) THEN <<current>>
    ELSE IF t[i].c = "."
         THEN <<current>> \o [k \in 1..(t[i].n - 1) |-> <<>>] \o SplitDots(t, i + 1, <<>>)
         ELSE SplitDots(t, i + 1, Append(current, t[i]))

max_length == 512

\* for sentence in sentences:
\*     if len(truncated + sentence) < max_length: truncated += sentence + "."
\*     else: break
RECURSIVE TruncateLoopInclusive(_, _, _)
TruncateLoopInclusive(sentences, i, truncated) ==
    IF i > Len(sentences) THEN truncated
    ELSE IF TLen(truncated) + TLen(sentences[i]) <= max_length
         THEN TruncateLoopInclusive(sentences, i + 1,
                  Norm(truncated \o sentences[i] \o <<Run(".", 1)>>))
         ELSE truncated
RECURSIVE TruncateLoop(_, _, _)
TruncateLoop(sentences, i, truncated) ==
    IF i > Len(sentences) THEN truncated
    ELSE IF TLen(truncated) + TLen(sentences[i]) < max_length
         THEN TruncateLoop(sentences, i + 1,
                  Norm(truncated \o sentences[i] \o <<Run(".", 1)>>))
         ELSE truncated

Truncate(t) ==
    IF TLen(t) > max_length
    THEN LET truncated == TruncateLoop(SplitDots(t, 1, <<>>), 1, <<>>)
         IN IF truncated # <<>> THEN truncated ELSE Prefix(t, max_length)
    ELSE t

\* SentimentAnalyzer._preprocess_text
preprocess_text(t) ==
    Strip(Truncate(RemoveSpecial(CollapseWhitespace(RemoveEmails(RemoveUrls(t))))))

----------------------------------------------------------------------------
(* SentimentAnalyzer.analyze and _get_ensemble_predictions.                *)

\* self.models after _load_available_models: only the lightweight models.
LoadedModels == {"vader", "textblob"}

min_text_length == 10

\* not text or len(text.strip()) < 10
TooShort(t) ==
    t.none \/ t.runs = <<>> \/ TLen(Strip(t.runs)) < min_text_length

\* round(x, 3) for x >= 0: the nearest thousandth, a tie going to the even one.
RoundMilli(x) ==
    LET scaled == x.n * 1000
        q == scaled \div x.d
        r == scaled % x.d
    IN IF 2 * r > x.d \/ (2 * r = x.d /\ q % 2 = 1) THEN Milli(q + 1) ELSE Milli(q)

TooShortVerdict ==
    [kind |-> "ok", sentiment |-> "neutral", confidence |-> Rat(5, 10),
     scores |-> FallbackScores,
     details |-> [text |-> "Text too short for analysis"]]

\* The dict analyze builds from what _ensemble_combine returned.
AnalyzeResult(t, cleaned_text, preds, combined) ==
    [kind |-> "ok",
     sentiment |-> combined.sentiment,
     confidence |-> RoundMilli(combined.confidence),
     scores |-> [c \in ClassSet |-> RoundMilli(combined.scores[c])],
     details |-> [model_predictions |-> preds,
                  text_length |-> TLen(t.runs),
                  processed_length |-> TLen(cleaned_text),
                  models_used |-> PresentOrder(preds)]]

\* What a classifier can give: it raises, or it returns a native result.
Raised == [raised |-> TRUE]
Gave(value) == [raised |-> FALSE, value |-> value]

VaderRaw(compound, pos, neu, neg) ==
    [compound |-> Milli(compound), pos |-> Milli(pos), neu |-> Milli(neu), neg |-> Milli(neg)]

\* vader_analyzer.polarity_scores(text): on a text with no token VADER gives
\* all zeros; on any other text its pos + neu + neg is positive.
VaderOutcomes(cleaned_text) ==
    {Raised} \cup
    IF cleaned_text = <<>>
    THEN {Gave(VaderRaw(0, 0, 0, 0))}
    ELSE {Gave(VaderRaw(800, 550, 250, 200)), Gave(VaderRaw(-700, 0, 300, 700)),
          Gave(VaderRaw(0, 0, 1000, 0)), Gave(VaderRaw(50, 333, 333, 333)),
          Gave(VaderRaw(900, 900, 100, 0))}

\* TextBlob(text).sentiment.polarity: 0.0 on a text with no token.
TextblobOutcomes(cleaned_text) ==
    {Raised} \cup
    IF cleaned_text = <<>>
    THEN {Gave(Milli(0))}
    ELSE {Gave(Milli(0)), Gave(Milli(100)), Gave(Milli(650)), Gave(Milli(-800)),
          Gave(Milli(1000))}

\* self.models['roberta'](text)[0] and self.models['finbert'](text)[0]
TransformerOutcomes == {Raised} \cup {Gave(r) : r \in NativeResults}

\* except Exception as e: logger.error(...): the next statement runs.
ExceptPropagates(next) == "raise"
ExceptContinue(next) == next

\* The normalizer of each classifier.
NormalizerOf(m, value) ==
    CASE m = "roberta" -> normalize_roberta_output(value)
      [] m = "finbert" -> normalize_finbert_output(value)
      [] m = "vader" -> normalize_vader_output(value)
      [] m = "textblob" -> normalize_textblob_output(value)

\* One classifier's try block: the call, the normalizer, the except clause.
TryClassifier(name, outcomes, next) ==
    \E o \in outcomes :
        /\ calls' = Append(calls, name)
        /\ raw' = (name :> o) @@ raw
        /\ IF o.raised
           THEN /\ UNCHANGED model_predictions
                /\ IF ExceptContinue(next) = "raise"
                   THEN apc' = "done" /\ verdict' = [kind |-> "Exception"]
                   ELSE apc' = ExceptContinue(next) /\ UNCHANGED verdict
           ELSE /\ model_predictions' = (name :> NormalizerOf(name, o.value)) @@ model_predictions
                /\ apc' = next
                /\ UNCHANGED verdict
        /\ UNCHANGED <<text, cleaned>>

\* analyze, up to the call of _get_ensemble_predictions
AnalyzeStart ==
    /\ apc = "call"
    /\ IF TooShort(text)
       THEN /\ verdict' = TooShortVerdict
            /\ apc' = "done"
            /\ UNCHANGED cleaned
       ELSE /\ cleaned' = preprocess_text(text.runs)
            /\ apc' = "roberta"
            /\ UNCHANGED verdict
    /\ UNCHANGED <<text, model_predictions, raw, calls, cvars, svars, qvars>>

RunRoberta ==
    /\ apc = "roberta"
    /\ IF "roberta" \in LoadedModels
       THEN TryClassifier("roberta", TransformerOutcomes, "finbert")
       ELSE apc' = "finbert" /\ UNCHANGED <<text, cleaned, model_predictions, raw, calls, verdict>>
    /\ UNCHANGED <<cvars, svars, qvars>>

RunFinbert ==
    /\ apc = "finbert"
    /\ IF "finbert" \in LoadedModels
       THEN TryClassifier("finbert", TransformerOutcomes, "vader")
       ELSE apc' = "vader" /\ UNCHANGED <<text, cleaned, model_predictions, raw, calls, verdict>>
    /\ UNCHANGED <<cvars, svars, qvars>>

RunVader ==
    /\ apc = "vader"
    /\ TryClassifier("vader", VaderOutcomes(cleaned), "textblob")
    /\ UNCHANGED <<cvars, svars, qvars>>

RunTextblob ==
    /\ apc = "textblob"
    /\ TryClassifier("textblob", TextblobOutcomes(cleaned), "combine")
    /\ UNCHANGED <<cvars, svars, qvars>>

\* final_sentiment, confidence, scores = self._ensemble_combine(predictions)
\* and the return statement; a KeyError of the combiner leaves analyze.
AnalyzeCombine ==
    /\ apc = "combine"
    /\ calls' = Append(calls, "ensemble_combine")
    /\ LET combined == ensemble_combine(model_predictions)
       IN /\ cres' = combined
          /\ verdict' = IF combined.kind = "ok"
                        THEN AnalyzeResult(text, cleaned, model_predictions, combined)
                        ELSE [kind |-> combined.kind]
    /\ cpreds' = model_predictions
    /\ cpc' = "done"
    /\ apc' = "done"
    /\ UNCHANGED <<text, cleaned, model_predictions, raw, svars, qvars>>

\* The documents analyze is called with.
Texts ==
    {<<>>,
     <<Run(" ", 3)>>,
     <<Run("a", 9)>>,
     <<Run("a", 10)>>,
     <<Run(" ", 2), Run("a", 9), Run("\n", 3)>>,
     <<Run("#", 10)>>,
     <<Run("a", 1), Run(" ", 9), Run("a", 1)>>,
     <<Run("h", 1), Run("t", 2), Run("p", 1), Run("s", 1), Run(":", 1), Run("/", 2),
       Run("a", 7), Run(".", 1), Run("a", 3), Run("/", 1), Run("a", 4)>>,
     <<Run("a", 5), Run("@", 1), Run("a", 5), Run(".", 1), Run("a", 3)>>,
     <<Run("a", 5), Run("#", 1), Run("a", 5)>>,
     <<Run("a", 4), Run(" ", 1), Run("#", 1), Run(" ", 1), Run("a", 4), Run("!", 1)>>,
     <<Run("a", 300), Run(".", 1), Run(" ", 1), Run("a", 300), Run(".", 1)>>,
     <<Run("a", 200), Run(".", 1), Run(" ", 1), Run("a", 200), Run(".", 1), Run("a", 200)>>,
     <<Run(" ", 2), Run("a", 300), Run(".", 1), Run("a", 300)>>,
     <<Run("a", 511), Run(".", 1), Run("a", 100)>>,
     <<Run("a", 512), Run(".", 1), Run("a", 100)>>,
     <<Run("a", 510), Run(".", 3), Run("a", 10)>>,
     <<Run("a", 511), Run(" ", 1), Run("a", 100), Run(".", 1)>>,
     <<Run("a", 512)>>,
     <<Run("a", 600)>>}

AnalyzeInputs == {[none |-> TRUE, runs |-> <<>>]} \cup {[none |-> FALSE, runs |-> t] : t \in Texts}

\* The combiner before analyze calls it.
CombinerIdle ==
    /\ cpc = "idle"
    /\ cpreds = <<>>
    /\ cres = NoResult

AnalyzeInit ==
    /\ text \in AnalyzeInputs
    /\ apc = "call"
    /\ cleaned = <<>>
    /\ model_predictions = <<>>
    /\ raw = <<>>
    /\ calls = <<>>
    /\ verdict = NoResult
    /\ CombinerIdle
    /\ StoreInit
    /\ QueryIdle

AnalyzeNext ==
    \/ AnalyzeStart
    \/ RunRoberta
    \/ RunFinbert
    \/ RunVader
    \/ RunTextblob
    \/ AnalyzeCombine

SpecAnalyze == AnalyzeInit /\ [][AnalyzeNext]_vars

----------------------------------------------------------------------------
(* Properties of analyze (specification SpecAnalyze).                      *)

ScoreSum(scores) == RAdd(RAdd(scores["positive"], scores["negative"]), scores["neutral"])
DictSum(d) ==
    RAdd(RAdd(DictGetOr(d, "positive", RZero), DictGetOr(d, "negative", RZero)),
         DictGetOr(d, "neutral", RZero))
NearOne(x) == RLe(Milli(990), x) /\ RLe(x, Milli(1010))

IsFixedVerdict(v) ==
    /\ v.kind = "ok"
    /\ v.sentiment = "neutral"
    /\ v.confidence = Milli(500)
    /\ v.scores = [c \in ClassSet |-> IF c = "neutral" THEN Milli(340) ELSE Milli(330)]

\* C4: an input whose normalized text (the output of _preprocess_text) is
\* shorter than 10 characters, None and the empty string included, gets the
\* fixed verdict and neither a classifier nor the combiner is invoked.
C4_ShortNormalizedTextFixedVerdict ==
    (text.none \/ TLen(preprocess_text(text.runs)) < 10) =>
        /\ calls = <<>>
        /\ verdict.kind \in {"none", "ok"}
        /\ apc = "done" => IsFixedVerdict(verdict)

\* C5: the scores of every verdict an adapter produced, and of every verdict
\* analyze returned, sum to within 0.01 of 1.
C5_ScoresSumToOne ==
    /\ \A m \in DOMAIN model_predictions : NearOne(DictSum(model_predictions[m].scores))
    /\ (apc = "done" /\ verdict.kind = "ok") => NearOne(ScoreSum(verdict.scores))

\* C6: on an empty mapping _ensemble_combine returns exactly neutral, 0.5,
\* {0.33, 0.33, 0.34}; analyze then returns the same three values, which are
\* those of the too-short verdict.
C6_EmptyEnsembleFallback ==
    (cpc = "done" /\ cpreds = <<>>) =>
        /\ cres = [kind |-> "ok", sentiment |-> "neutral", confidence |-> Milli(500),
                   scores |-> [c \in ClassSet |->
                                  IF c = "neutral" THEN Milli(340) ELSE Milli(330)]]
        /\ IsFixedVerdict(verdict)
        /\ verdict.sentiment = TooShortVerdict.sentiment
        /\ verdict.confidence = TooShortVerdict.confidence
        /\ verdict.scores = TooShortVerdict.scores

\* C6 witness: every classifier raised and analyze has returned.
C6_Witness ==
    /\ apc = "done"
    /\ cpc = "done"
    /\ cpreds = <<>>
    /\ DOMAIN raw = {"vader", "textblob"}
    /\ \A m \in DOMAIN raw : raw[m].raised
    /\ verdict.kind = "ok"

\* C7: whichever classifiers raise, every classifier is still invoked, the
\* predictions hold exactly the verdicts of those that did not raise, no
\* exception leaves analyze, and analyze returns a verdict (the fallback
\* when all raise).
C7_AdapterFailureIsolated ==
    /\ verdict.kind \in {"none", "ok"}
    /\ DOMAIN model_predictions = {m \in DOMAIN raw : ~raw[m].raised}
    /\ \A m \in DOMAIN model_predictions :
           model_predictions[m] = NormalizerOf(m, raw[m].value)
    /\ (apc = "done" /\ ~TooShort(text)) =>
           /\ calls = <<"vader", "textblob", "ensemble_combine">>
           /\ DOMAIN raw = {"vader", "textblob"}
           /\ verdict.kind = "ok"
           /\ (\A m \in DOMAIN raw : raw[m].raised) => IsFixedVerdict(verdict)

\* C7 witness: the first classifier raised, the second was still invoked and
\* its verdict alone was combined.
C7_Witness ==
    /\ apc = "done"
    /\ DOMAIN raw = {"vader", "textblob"}
    /\ raw["vader"].raised
    /\ ~raw["textblob"].raised
    /\ DOMAIN model_predictions = {"textblob"}
    /\ verdict.kind = "ok"
    /\ verdict.sentiment = "positive"

----------------------------------------------------------------------------
(* The store: two connections calling store_analysis, in any interleaving. *)

StoreSpecInit ==
    /\ StoreInit
    /\ CombinerIdle
    /\ AnalyzerIdle
    /\ QueryIdle

StoreNext ==
    \/ \E p \in Conns : StoreCall(p)
    \/ \E p \in Conns : InsertArticle(p)
    \/ \E p \in Conns : UpdateSummary(p)
    \/ \E p \in Conns : Commit(p)
    \/ \E p \in Conns : StoreFail(p)
    \/ \E p \in Conns : StoreReturn(p)
    \/ Tick

SpecStore == StoreSpecInit /\ [][StoreNext]_vars

----------------------------------------------------------------------------
(* Claims about the store.                                                 *)

KeyOf(r) == <<r.keywords, r.date>>

\* The statistics of a batch, counted from its articles one by one.
CountOf(articles, s) == Cardinality({j \in DOMAIN articles : articles[j].sentiment = s})
RECURSIVE ConfidenceUpTo(_, _)
ConfidenceUpTo(articles, n) ==
    IF n = 0 THEN RZero ELSE RAdd(ConfidenceUpTo(articles, n - 1), articles[n].confidence)
MeanConfidence(articles) ==
    IF Len(articles) = 0 THEN RZero
    ELSE RDiv(ConfidenceUpTo(articles, Len(articles)), Rat(Len(articles), 1))
CarriesBatch(r, articles) ==
    /\ r.total_articles = Len(articles)
    /\ r.positive_count = CountOf(articles, "positive")
    /\ r.negative_count = CountOf(articles, "negative")
    /\ r.neutral_count = CountOf(articles, "neutral")
    /\ r.avg_confidence = MeanConfidence(articles)

\* The batch of call frame f is wholly in: its rows follow the rows that
\* were there, in order, and the summary row of its key is the one written
\* last and is the batch's own; the summary rows of other keys are untouched.
WhollyStored(before, after, f) ==
    /\ Len(after.results) = Len(before.results) + Len(f.articles)
    /\ SubSeq(after.results, 1, Len(before.results)) = before.results
    /\ \A j \in 1..Len(f.articles) :
         LET r == after.results[Len(before.results) + j]
         IN /\ r.keywords = f.keywords
            /\ r.title = f.articles[j].title
            /\ r.sentiment = f.articles[j].sentiment
            /\ r.confidence = f.articles[j].confidence
    /\ \E r \in after.summary :
         /\ KeyOf(r) = <<f.keywords, f.date>>
         /\ r.id = after.seq_summary
         /\ CarriesBatch(r, f.articles)
    /\ {r \in after.summary : KeyOf(r) # <<f.keywords, f.date>>}
         = {r \in before.summary : KeyOf(r) # <<f.keywords, f.date>>}

Returns(p, value) == conn[p].pc # "done" /\ conn'[p].pc = "done" /\ conn'[p].ret = value

\* C8: store_analysis is atomic with respect to its summary upsert. The
\* tables change only in the step in which a call returns True, and then by
\* the whole batch together with the summary row of (keywords, today); a
\* call that returns False leaves both tables as they were. At no time do
\* the tables hold rows of a batch without its summary or the reverse.
C8_StoreAtomic ==
    [][ /\ \A p \in Conns : Returns(p, FALSE) => db' = db
        /\ \A p \in Conns : Returns(p, TRUE) => WhollyStored(db, db', conn[p])
        /\ db' # db => \E p \in Conns : Returns(p, TRUE) ]_vars

\* A call failed after the transaction had already inserted a row, and the
\* tables hold nothing.
C8_Witness ==
    \E p \in Conns :
        /\ conn[p].pc = "done"
        /\ conn[p].ret = FALSE
        /\ conn[p].i > 1
        /\ db = EmptyDb

\* The last committed call for a summary key.
CallsFor(key) == {n \in DOMAIN log : <<log[n].keywords, log[n].date>> = key}
LastCallFor(key) == CHOOSE n \in CallsFor(key) : \A m \in CallsFor(key) : m <= n

\* C9: after any sequence of successful calls analysis_summary has at most
\* one row per (keywords, date), and that row carries total_articles, the
\* three counts and avg_confidence of the most recent batch stored under the
\* key alone: earlier batches are replaced, not added, and an empty batch
\* gives avg_confidence 0.
C9_SummaryReplaced ==
    /\ \A r1, r2 \in db.summary : KeyOf(r1) = KeyOf(r2) => r1 = r2
    /\ \A k \in Keywords, d \in 1..MaxDay :
         CallsFor(<<k, d>>) # {} =>
             \E r \in db.summary :
                 /\ KeyOf(r) = <<k, d>>
                 /\ CarriesBatch(r, log[LastCallFor(<<k, d>>)].articles)
    /\ \A r \in db.summary : r.total_articles = 0 => r.avg_confidence = RZero

\* Two calls for the same key on the same day, of two articles and then of
\* one: the summary row counts one article.
C9_Witness ==
    /\ Len(log) = 2
    /\ log[1].keywords = log[2].keywords
    /\ log[1].date = log[2].date
    /\ Len(log[1].articles) = 2
    /\ Len(log[2].articles) = 1
    /\ \E r \in db.summary : r.total_articles = 1

\* The calls of a log run one after the other on an empty database, each
\* alone, with the clock readings it had.
RECURSIVE RunInserts(_, _, _)
RunInserts(d, call, j) ==
    IF j > Len(call.articles) THEN d
    ELSE RunInserts(InsertResult(d, call.keywords, call.articles[j], call.stamps[j]), call, j + 1)
RunAlone(d, call) ==
    update_summary(RunInserts(d, call, 1), call.keywords, call.articles, call.date)
RECURSIVE RunInOrder(_, _)
RunInOrder(d, calls_) ==
    IF calls_ = <<>> THEN d ELSE RunInOrder(RunAlone(d, Head(calls_)), Tail(calls_))

Titles(rows) == [j \in DOMAIN rows |-> rows[j].title]
TitlesOf(articles) == [j \in DOMAIN articles |-> articles[j].title]

\* C10: concurrent calls are serialized, no update is lost. The tables are
\* always what the calls that returned True give when run one after the
\* other in the order of their commits; after two such calls for one
\* summary key all rows of both batches are there and the key's one summary
\* row is wholly the later call's.
C10_Serialized ==
    /\ db = RunInOrder(EmptyDb, log)
    /\ \A p \in Conns :
         (conn[p].pc = "done" /\ conn[p].ret) =>
             \E n \in DOMAIN log : log[n].conn = p /\ log[n].articles = conn[p].articles
    /\ (Len(log) = 2 /\ log[1].keywords = log[2].keywords /\ log[1].date = log[2].date) =>
           /\ Titles(db.results) = TitlesOf(log[1].articles) \o TitlesOf(log[2].articles)
           /\ \A r \in db.summary :
                KeyOf(r) = <<log[2].keywords, log[2].date>> => CarriesBatch(r, log[2].articles)
           /\ Cardinality({r \in db.summary : KeyOf(r) = <<log[2].keywords, log[2].date>>}) = 1

\* Both connections began their call before either had committed, both
\* returned True for the same key and day, with batches of different size.
C10_Witness ==
    /\ Len(log) = 2
    /\ log[1].conn # log[2].conn
    /\ \A p \in Conns : conn[p].pc = "done" /\ conn[p].ret /\ conn[p].began = 0
    /\ log[1].keywords = log[2].keywords
    /\ log[1].date = log[2].date
    /\ Len(log[1].articles) # Len(log[2].articles)
    /\ Len(log[1].articles) > 0
    /\ Len(log[2].articles) > 0

----------------------------------------------------------------------------
(* DataManager: the read operations and cleanup_old_data.                  *)

\* The keywords values used, as the characters SQLite compares.
Chars(str) ==
    CASE str = "" -> <<>>
      [] str = "ai" -> <<"a", "i">>
      [] str = "AI" -> <<"A", "I">>
      [] str = "ai news" -> <<"a", "i", " ", "n", "e", "w", "s">>
      [] str = "news" -> <<"n", "e", "w", "s">>
      [] str = "a_" -> <<"a", "_">>
      [] str = "zz" -> <<"z", "z">>

\* LIKE folds the case of ASCII letters.
AsciiLower(c) ==
    CASE c = "A" -> "a"
      [] c = "I" -> "i"
      [] OTHER -> c

\* SQLite's LIKE: % stands for any run of characters, _ for any one
\* character, every other character for itself in either case.
RECURSIVE Like(_, _)
Like(str, pattern) ==
    IF pattern = <<>> THEN str = <<>>
    ELSE IF Head(pattern) = "%"
         THEN Like(str, Tail(pattern)) \/ (str # <<>> /\ Like(Tail(str), pattern))
         ELSE /\ str # <<>>
              /\ Head(pattern) = "_" \/ AsciiLower(Head(pattern)) = AsciiLower(Head(str))
              /\ Like(Tail(str), Tail(pattern))

\* keywords LIKE ?  with the parameter f'%{keyword}%'
KeywordsLike(keywords, keyword) ==
    Like(Chars(keywords), <<"%">> \o Chars(keyword) \o <<"%">>)

\* (datetime.now() - timedelta(days=days)).strftime('%Y-%m-%d')
cutoff_date(days) == today - days

\* WHERE date(created_at) >= ?
InWindow(d, days) == SelectSeq(d.results, LAMBDA r : r.created_at >= cutoff_date(days))

\* if keywords: the filter is applied unless it is None or empty.
Unfiltered(rows, keywords) == rows
Filtered(rows, keywords) ==
    IF keywords \in {NULL, ""} THEN rows
    ELSE SelectSeq(rows, LAMBDA r : KeywordsLike(r.keywords, keywords))

Reverse(seq) == [j \in 1..Len(seq) |-> seq[Len(seq) + 1 - j]]
Take(seq, n) == SubSeq(seq, 1, IF n < Len(seq) THEN n ELSE Len(seq))
SetMax(S) == CHOOSE x \in S : \A y \in S : y <= x
SetMin(S) == CHOOSE x \in S : \A y \in S : x <= y

\* ORDER BY created_at DESC. Rows of equal created_at come in the order of
\* the scan, which SQL leaves open: by rowid, or by rowid backwards.
TieOrders == {"rowid", "rowid desc"}
OrderByRowid(rows, ties) == rows
RECURSIVE OrderByCreatedAtDesc(_, _)
OrderByCreatedAtDesc(rows, ties) ==
    IF rows = <<>> THEN <<>>
    ELSE LET latest == SetMax({rows[j].created_at : j \in DOMAIN rows})
             first == SelectSeq(rows, LAMBDA r : r.created_at = latest)
             rest == SelectSeq(rows, LAMBDA r : r.created_at # latest)
         IN (IF ties = "rowid" THEN first ELSE Reverse(first))
                \o OrderByCreatedAtDesc(rest, ties)

\* LIMIT 100
history_limit == 100

\* The dict get_history builds from a row.
HistoryEntry(r) ==
    [keywords |-> r.keywords, sentiment |-> r.sentiment, confidence |-> r.confidence,
     created_at |-> r.created_at, title |-> r.title]

\* DataManager.get_history
get_history(d, days, ties) ==
    LET results == Take(OrderByCreatedAtDesc(InWindow(d, days), ties), history_limit)
    IN [j \in 1..Len(results) |-> HistoryEntry(results[j])]

\* COUNT(*) and AVG(confidence) over rows; AVG of no row is NULL, which
\* `or 0` turns into 0.
CountWhere(rows, s) == Len(SelectSeq(rows, LAMBDA r : r.sentiment = s))
RECURSIVE SumRowConfidence(_, _, _)
SumRowConfidence(rows, from, to) ==
    IF from > to THEN RZero
    ELSE IF from = to THEN rows[from].confidence
    ELSE LET mid == (from + to) \div 2
         IN RAdd(SumRowConfidence(rows, from, mid), SumRowConfidence(rows, mid + 1, to))
AvgRowConfidence(rows) ==
    IF rows = <<>> THEN RZero
    ELSE RDiv(SumRowConfidence(rows, 1, Len(rows)), Rat(Len(rows), 1))

\* (count / total * 100) if total > 0 else 0
Percentage(count, total) ==
    IF total > 0 THEN RMul(RDiv(Rat(count, 1), Rat(total, 1)), Rat(100, 1)) ELSE RZero

\* GROUP BY date(created_at), sentiment ORDER BY date(created_at): the
\* groups of one date, as (sentiment, count) pairs.
GroupsOn(rows, date) ==
    LET on == SelectSeq(rows, LAMBDA r : r.created_at = date)
        present == SelectSeq(<<"negative", "neutral", "positive">>,
                             LAMBDA s : CountWhere(on, s) > 0)
    IN [j \in 1..Len(present) |-> [sentiment |-> present[j], count |-> CountWhere(on, present[j])]]

\* trends[date][sentiment] = count; trends[date]['total'] += count
RECURSIVE OrganizeWithoutTotal(_, _)
OrganizeWithoutTotal(groups, data) ==
    IF groups = <<>> THEN data
    ELSE OrganizeWithoutTotal(Tail(groups),
             [data EXCEPT ![Head(groups).sentiment] = Head(groups).count])
RECURSIVE OrganizeByDate(_, _)
OrganizeByDate(groups, data) ==
    IF groups = <<>> THEN data
    ELSE OrganizeByDate(Tail(groups),
             [data EXCEPT ![Head(groups).sentiment] = Head(groups).count,
                          !["total"] = @ + Head(groups).count])

TrendPoint(date, data) ==
    [date |-> date,
     positive |-> data["positive"], negative |-> data["negative"],
     neutral |-> data["neutral"], total |-> data["total"],
     positive_pct |-> Percentage(data["positive"], data["total"]),
     negative_pct |-> Percentage(data["negative"], data["total"]),
     neutral_pct |-> Percentage(data["neutral"], data["total"])]

\* for date, data in sorted(trends.items())
RECURSIVE SortedDates(_)
SortedDates(S) ==
    IF S = {} THEN <<>> ELSE <<SetMin(S)>> \o SortedDates(S \ {SetMin(S)})

\* DataManager.get_trends
get_trends(d, keyword, days) ==
    LET rows == SelectSeq(InWindow(d, days), LAMBDA r : KeywordsLike(r.keywords, keyword))
        dates == SortedDates({rows[j].created_at : j \in DOMAIN rows})
        zero == [k \in {"positive", "negative", "neutral", "total"} |-> 0]
    IN [keyword |-> keyword, period_days |-> days,
        trends |-> [j \in 1..Len(dates) |->
                       TrendPoint(dates[j], OrganizeByDate(GroupsOn(rows, dates[j]), zero))]]

\* The structure get_summary_stats returns when no row is counted.
ZeroStats(days) ==
    [total_articles |-> 0, positive_count |-> 0, negative_count |-> 0, neutral_count |-> 0,
     positive_percentage |-> RZero, negative_percentage |-> RZero,
     neutral_percentage |-> RZero, avg_confidence |-> RZero,
     unique_keywords |-> 0, period_days |-> days]

\* DataManager.get_summary_stats
get_summary_stats(d, keywords, days) ==
    LET rows == Filtered(InWindow(d, days), keywords)
        total == Len(rows)
    IN IF total > 0
       THEN [total_articles |-> total,
             positive_count |-> CountWhere(rows, "positive"),
             negative_count |-> CountWhere(rows, "negative"),
             neutral_count |-> CountWhere(rows, "neutral"),
             positive_percentage |-> Percentage(CountWhere(rows, "positive"), total),
             negative_percentage |-> Percentage(CountWhere(rows, "negative"), total),
             neutral_percentage |-> Percentage(CountWhere(rows, "neutral"), total),
             avg_confidence |-> RoundMilli(AvgRowConfidence(rows)),
             unique_keywords |-> Cardinality({rows[j].keywords : j \in DOMAIN rows}),
             period_days |-> days]
       ELSE ZeroStats(days)

\* Keywords values in the order of SQLite's BINARY collation.
BinaryOrder == <<"AI", "ai", "ai news">>
RankOf(keywords) == CHOOSE j \in DOMAIN BinaryOrder : BinaryOrder[j] = keywords

\* GROUP BY keywords ORDER BY article_count DESC. Groups of equal count come
\* in the order the grouping gives them, or that order backwards.
GroupOrders == {"ascending", "descending"}
RowsOf(rows, keywords) == SelectSeq(rows, LAMBDA r : r.keywords = keywords)
RECURSIVE OrderByKey(_)
OrderByKey(S) ==
    IF S = {} THEN <<>>
    ELSE LET k == CHOOSE x \in S : \A y \in S : RankOf(x) <= RankOf(y)
         IN <<k>> \o OrderByKey(S \ {k})
OrderByKeyOnly(S, rows, ties) == OrderByKey(S)
RECURSIVE OrderByCountDesc(_, _, _)
OrderByCountDesc(S, rows, ties) ==
    IF S = {} THEN <<>>
    ELSE LET most == SetMax({Len(RowsOf(rows, k)) : k \in S})
             first == {k \in S : Len(RowsOf(rows, k)) = most}
         IN (IF ties = "ascending" THEN OrderByKey(first) ELSE Reverse(OrderByKey(first)))
                \o OrderByCountDesc(S \ first, rows, ties)

\* LIMIT ?: a negative limit is no limit.
Limit(seq, limit) == IF limit < 0 THEN seq ELSE Take(seq, limit)

\* The dict get_top_keywords builds from a group.
TopEntry(keywords, group) ==
    LET count == Len(group)
        pos_count == CountWhere(group, "positive")
        neg_count == CountWhere(group, "negative")
    IN [keywords |-> keywords, article_count |-> count,
        avg_confidence |-> RoundMilli(AvgRowConfidence(group)),
        positive_count |-> pos_count, negative_count |-> neg_count,
        sentiment_ratio |-> IF count > 0 THEN Rat(pos_count - neg_count, count) ELSE RZero]

\* DataManager.get_top_keywords
get_top_keywords(d, days, limit, ties) ==
    LET rows == InWindow(d, days)
        groups == Limit(OrderByCountDesc({rows[j].keywords : j \in DOMAIN rows}, rows, ties), limit)
    IN [j \in 1..Len(groups) |-> TopEntry(groups[j], RowsOf(rows, groups[j]))]

\* DataManager.export_data: the records serialized, in the format asked for.
export_data(d, keywords, days, format, ties) ==
    [format |-> IF format = "csv" THEN "csv" ELSE "json",
     records |-> OrderByCreatedAtDesc(Filtered(InWindow(d, days), keywords), ties)]

\* The two DELETE statements of cleanup_old_data.
DeleteOld(d, days) ==
    [d EXCEPT !.results = SelectSeq(@, LAMBDA r : r.created_at >= cutoff_date(days)),
              !.summary = {r \in @ : r.date >= cutoff_date(days)}]

\* VACUUM cannot run inside a transaction: sqlite3 raises OperationalError
\* ("cannot VACUUM from within a transaction").
VacuumRaises(in_transaction) == in_transaction

\* DataManager.cleanup_old_data: the DELETEs open a transaction, VACUUM runs
\* in it, and an exception leaves the with block through a rollback.
cleanup_old_data(d, days) ==
    LET in_transaction == TRUE
    IN IF VacuumRaises(in_transaction) THEN d ELSE DeleteOld(d, days)

\* What a request returned, with the day and the tables it was answered on.
Answer(op, args, reachable, result) ==
    [op |-> op, args |-> args, reachable |-> reachable, at |-> today, seen |-> db,
     result |-> result]

\* Requests are served one at a time: the next is taken once the last
\* answer has been handed to its caller.
Ready == answer.op = "none"
Deliver ==
    /\ ~Ready
    /\ answer' = NoAnswer
    /\ UNCHANGED <<cvars, avars, svars, utc_skew>>

\* DataManager.get_history(days); an exception gives [].
GetHistory(days) ==
    /\ Ready
    /\ \E reachable \in BOOLEAN, ties \in TieOrders :
         answer' = Answer("get_history", [days |-> days], reachable,
                          IF reachable THEN get_history(db, days, ties) ELSE <<>>)
    /\ UNCHANGED <<cvars, avars, svars, utc_skew>>

\* DataManager.get_trends(keyword, days); an exception gives no trends.
GetTrends(keyword, days) ==
    /\ Ready
    /\ \E reachable \in BOOLEAN :
         answer' = Answer("get_trends", [keyword |-> keyword, days |-> days], reachable,
                          IF reachable THEN get_trends(db, keyword, days)
                          ELSE [keyword |-> keyword, period_days |-> days, trends |-> <<>>])
    /\ UNCHANGED <<cvars, avars, svars, utc_skew>>

\* DataManager.get_summary_stats(keywords, days); an exception gives {}.
EmptyDict == [x \in {} |-> 0]
GetSummaryStats(keywords, days) ==
    /\ Ready
    /\ \E reachable \in BOOLEAN :
         answer' = Answer("get_summary_stats", [keywords |-> keywords, days |-> days], reachable,
                          IF reachable THEN get_summary_stats(db, keywords, days) ELSE EmptyDict)
    /\ UNCHANGED <<cvars, avars, svars, utc_skew>>

\* DataManager.get_top_keywords(days, limit); an exception gives [].
GetTopKeywords(days, limit) ==
    /\ Ready
    /\ \E reachable \in BOOLEAN, ties \in GroupOrders :
         answer' = Answer("get_top_keywords", [days |-> days, limit |-> limit], reachable,
                          IF reachable THEN get_top_keywords(db, days, limit, ties) ELSE <<>>)
    /\ UNCHANGED <<cvars, avars, svars, utc_skew>>

\* DataManager.export_data(keywords, days, format); an exception gives None.
None == [none |-> TRUE]
ExportData(keywords, days, format) ==
    /\ Ready
    /\ \E reachable \in BOOLEAN, ties \in TieOrders :
         answer' = Answer("export_data",
                          [keywords |-> keywords, days |-> days, format |-> format], reachable,
                          IF reachable THEN export_data(db, keywords, days, format, ties)
                          ELSE None)
    /\ UNCHANGED <<cvars, avars, svars, utc_skew>>

\* DataManager.cleanup_old_data(days); it returns nothing, and logs an exception.
CleanupOldData(days) ==
    /\ Ready
    /\ lock = NoConn
    /\ \E reachable \in BOOLEAN :
         /\ db' = IF reachable THEN cleanup_old_data(db, days) ELSE db
         /\ answer' = Answer("cleanup_old_data", [days |-> days], reachable, None)
    /\ UNCHANGED <<cvars, avars, today, lock, conn, started, log, utc_skew>>

----------------------------------------------------------------------------
(* The read operations and cleanup on stores that earlier calls have       *)
(* filled.                                                                 *)

OlderRows == 60
NewerRows == 45

\* A committed store_analysis call of an earlier day.
EarlierCall(keywords, articles, day) ==
    [conn |-> "c1", keywords |-> keywords, articles |-> articles,
     stamps |-> [j \in 1..Len(articles) |-> day], date |-> day]

\* Rows of three keywords values over three days, none of "ai" on day 0.
SeedDb ==
    RunInOrder(EmptyDb,
        <<EarlierCall("ai", <<Article("t1", "positive", 900), Article("t2", "negative", 700)>>, -1),
          EarlierCall("AI", <<Article("t1", "positive", 900)>>, 0),
          EarlierCall("ai news", <<Article("t3", "neutral", 400)>>, 1),
          EarlierCall("ai", <<Article("t1", "positive", 900)>>, 1)>>)

\* A committed call whose batch was the same document n times over.
Repeated(d, keywords, article, n, day) ==
    InsertOrReplaceSummary(
        [d EXCEPT !.results = @ \o [j \in 1..n |->
                                        ResultRow(d.seq_results + j, keywords, article, day)],
                  !.seq_results = @ + n],
        [id |-> 0, keywords |-> keywords, date |-> day, total_articles |-> n,
         positive_count |-> IF article.sentiment = "positive" THEN n ELSE 0,
         negative_count |-> IF article.sentiment = "negative" THEN n ELSE 0,
         neutral_count |-> IF article.sentiment = "neutral" THEN n ELSE 0,
         avg_confidence |-> article.confidence])

\* More rows than get_history returns.
BigDb ==
    Repeated(Repeated(EmptyDb, "ai", Article("t1", "positive", 900), OlderRows, 0),
             "ai news", Article("t2", "negative", 700), NewerRows, 1)

InitialDbs == {EmptyDb, SeedDb, BigDb}

Windows == {0, 1, 2}
Filters == {"", "ai", "AI", "news", "a_", "zz"}
Limits == {0, 1, 2, 5}
Formats == {"csv", "json"}

QueryInit ==
    /\ db \in InitialDbs
    /\ today = 1
    /\ lock = NoConn
    /\ conn = [p \in Conns |-> IdleFrame]
    /\ started = 0
    /\ log = <<>>
    /\ QueryIdle
    /\ CombinerIdle
    /\ AnalyzerIdle

QueryNext ==
    \/ \E days \in Windows : GetHistory(days)
    \/ \E keyword \in Filters, days \in Windows : GetTrends(keyword, days)
    \/ \E keywords \in Filters \cup {NULL}, days \in Windows : GetSummaryStats(keywords, days)
    \/ \E days \in Windows, limit \in Limits : GetTopKeywords(days, limit)
    \/ \E keywords \in {NULL, "ai"}, days \in Windows, format \in Formats :
         ExportData(keywords, days, format)
    \/ \E days \in Windows : CleanupOldData(days)
    \/ Deliver
    \/ Tick

SpecQuery == QueryInit /\ [][QueryNext]_vars

----------------------------------------------------------------------------
(* Claims about the read operations and cleanup.                           *)

Answered(op) == answer.op = op /\ answer.reachable
CutoffOf(a) == a.at - a.args.days
RowsSeen == answer.seen.results
Qualifying == {i \in DOMAIN RowsSeen : RowsSeen[i].created_at >= CutoffOf(answer)}

\* C12: after cleanup_old_data(days) completes, analysis_results has no row
\* created before today minus days, analysis_summary has no row dated
\* before it, and every row of both tables on or after the cutoff is still
\* there unchanged.
C12_CleanupRemovesOld ==
    Answered("cleanup_old_data") =>
        /\ \A j \in DOMAIN db.results : db.results[j].created_at >= CutoffOf(answer)
        /\ \A r \in db.summary : r.date >= CutoffOf(answer)
        /\ SelectSeq(db.results, LAMBDA r : r.created_at >= CutoffOf(answer))
             = SelectSeq(RowsSeen, LAMBDA r : r.created_at >= CutoffOf(answer))
        /\ {r \in db.summary : r.date >= CutoffOf(answer)}
             = {r \in answer.seen.summary : r.date >= CutoffOf(answer)}

\* What each read operation returns on a reachable store with no row.
OnNoRows(a) ==
    CASE a.op = "get_history" -> get_history(EmptyDb, a.args.days, "rowid")
      [] a.op = "get_trends" -> get_trends(EmptyDb, a.args.keyword, a.args.days)
      [] a.op = "get_summary_stats" -> get_summary_stats(EmptyDb, a.args.keywords, a.args.days)
      [] a.op = "get_top_keywords" ->
             get_top_keywords(EmptyDb, a.args.days, a.args.limit, "ascending")
Differ(x, y) == DOMAIN x # DOMAIN y \/ x # y
ReadOps == {"get_history", "get_trends", "get_summary_stats", "get_top_keywords"}

\* C15: what a read operation returns when the store is unreachable differs
\* from what it returns when the store is reachable and has no matching row.
C15_FailureDistinctFromEmpty ==
    (answer.op \in ReadOps /\ ~answer.reachable) => Differ(answer.result, OnNoRows(answer))

\* keyword is a substring of keywords, character for character.
ContainsSubstring(keywords, keyword) ==
    \E i \in 1..(Len(Chars(keywords)) + 1) :
        /\ i + Len(Chars(keyword)) - 1 <= Len(Chars(keywords))
        /\ SubSeq(Chars(keywords), i, i + Len(Chars(keyword)) - 1) = Chars(keyword)

\* The rows of the answered request's window that a keyword filter matches,
\* as the claims read "contains": the filter is a substring, case and all.
Containing(keyword) ==
    {i \in Qualifying : ContainsSubstring(RowsSeen[i].keywords, keyword)}
\* The rows the store's own matching gives.
Matching(keyword) ==
    {i \in Qualifying : KeywordsLike(RowsSeen[i].keywords, keyword)}
Points == answer.result.trends

\* C16: get_trends returns one point for each date on which a row of the
\* window has keywords containing the keyword, none for any other date, no
\* date twice, the dates strictly ascending.
C16_OnePointPerMatchingDate ==
    Answered("get_trends") =>
        /\ {Points[j].date : j \in DOMAIN Points}
             = {RowsSeen[i].created_at : i \in Containing(answer.args.keyword)}
        /\ \A j \in 1..(Len(Points) - 1) : Points[j].date < Points[j + 1].date

\* The matching rows of a date, and those of one sentiment.
On(date) == {i \in Matching(answer.args.keyword) : RowsSeen[i].created_at = date}
OnWith(date, s) == {i \in On(date) : RowsSeen[i].sentiment = s}
PercentOf(count, total) == IF total > 0 THEN Rat(count * 100, total) ELSE RZero

\* C17: in every trend point positive, negative and neutral are the numbers
\* of matching rows of the date with that sentiment (0 when there is none),
\* total is the number of matching rows of the date, each percentage is
\* count / total * 100 (0 when total is 0), and the three counts add up to
\* total.
C17_TrendPointCounts ==
    Answered("get_trends") =>
        \A j \in DOMAIN Points :
            LET pt == Points[j]
            IN /\ pt.positive = Cardinality(OnWith(pt.date, "positive"))
               /\ pt.negative = Cardinality(OnWith(pt.date, "negative"))
               /\ pt.neutral = Cardinality(OnWith(pt.date, "neutral"))
               /\ pt.total = Cardinality(On(pt.date))
               /\ pt.positive_pct = PercentOf(pt.positive, pt.total)
               /\ pt.negative_pct = PercentOf(pt.negative, pt.total)
               /\ pt.neutral_pct = PercentOf(pt.neutral, pt.total)
               /\ pt.positive + pt.negative + pt.neutral = pt.total

\* A point of two rows, one positive and one negative, none neutral.
C17_Witness ==
    /\ Answered("get_trends")
    /\ \E j \in DOMAIN Points :
         /\ Points[j].total = 2
         /\ Points[j].positive = 1
         /\ Points[j].neutral = 0
         /\ Points[j].positive_pct = Rat(50, 1)

\* C18: get_summary_stats counts exactly the rows of the window whose
\* keywords contain the filter as a case-sensitive substring, all rows of
\* the window when the filter is absent or empty, and returns the structure
\* with every count, percentage and average 0 when no row matches.
C18_StatsCountSubstringMatches ==
    Answered("get_summary_stats") =>
        LET counted == IF answer.args.keywords \in {NULL, ""}
                       THEN Qualifying
                       ELSE Containing(answer.args.keywords)
        IN /\ answer.result.total_articles = Cardinality(counted)
           /\ \A c \in ClassSet :
                answer.result[c \o "_count"]
                    = Cardinality({i \in counted : RowsSeen[i].sentiment = c})
           /\ counted = {} =>
                /\ \A c \in ClassSet : answer.result[c \o "_percentage"] = RZero
                /\ answer.result.avg_confidence = RZero

AtLeast(n, m) == IF n < m THEN n ELSE m

\* C19: get_history returns at most 100 rows, all created on or after today
\* minus days, in descending order of created_at, and when more than 100
\* rows qualify the 100 returned are the most recently created.
C19_HistoryNewestHundred ==
    Answered("get_history") =>
        LET h == answer.result
        IN /\ Len(h) <= 100
           /\ Len(h) = AtLeast(Cardinality(Qualifying), 100)
           /\ \A j \in DOMAIN h : h[j].created_at >= CutoffOf(answer)
           /\ \A j \in 1..(Len(h) - 1) : h[j].created_at >= h[j + 1].created_at
           /\ \A j \in DOMAIN h : \E i \in Qualifying : h[j] = HistoryEntry(RowsSeen[i])
           /\ \A i \in Qualifying :
                Cardinality({j \in DOMAIN h : h[j].created_at >= RowsSeen[i].created_at})
                    = AtLeast(Cardinality({k \in Qualifying :
                                  RowsSeen[k].created_at >= RowsSeen[i].created_at}), 100)

\* More than 100 rows qualified; 100 came back, of both days, the newer
\* first.
C19_Witness ==
    /\ Answered("get_history")
    /\ Cardinality(Qualifying) > 100
    /\ Len(answer.result) = 100
    /\ answer.result[1].created_at > answer.result[100].created_at

InWindowWith(keywords) == {i \in Qualifying : RowsSeen[i].keywords = keywords}

\* C20: get_top_keywords returns at most limit entries, one for each
\* distinct keywords value with rows in the window, in non-increasing
\* order of article_count, the number of rows of exactly that keywords
\* value; sentiment_ratio is (positive_count - negative_count) /
\* article_count and lies between -1 and 1.
C20_TopKeywordsRanked ==
    Answered("get_top_keywords") =>
        LET top == answer.result
            distinct == {RowsSeen[i].keywords : i \in Qualifying}
        IN /\ Len(top) = AtLeast(Cardinality(distinct), answer.args.limit)
           /\ \A j \in DOMAIN top : top[j].keywords \in distinct
           /\ \A j, k \in DOMAIN top : top[j].keywords = top[k].keywords => j = k
           /\ \A j \in 1..(Len(top) - 1) : top[j].article_count >= top[j + 1].article_count
           /\ \A j \in DOMAIN top, k \in distinct :
                (\A m \in DOMAIN top : top[m].keywords # k) =>
                    Cardinality(InWindowWith(k)) <= top[j].article_count
           /\ \A j \in DOMAIN top :
                LET mine == InWindowWith(top[j].keywords)
                    pos == Cardinality({i \in mine : RowsSeen[i].sentiment = "positive"})
                    neg == Cardinality({i \in mine : RowsSeen[i].sentiment = "negative"})
                IN /\ top[j].article_count = Cardinality(mine)
                   /\ top[j].sentiment_ratio = Rat(pos - neg, Cardinality(mine))
                   /\ RLe(Rat(-1, 1), top[j].sentiment_ratio)
                   /\ RLe(top[j].sentiment_ratio, ROne)

\* Three keywords values in the window and a limit of two: the value with
\* three rows comes first, its ratio a third.
C20_Witness ==
    /\ Answered("get_top_keywords")
    /\ answer.args.limit = 2
    /\ Len(answer.result) = 2
    /\ answer.result[1].article_count = 3
    /\ answer.result[1].sentiment_ratio = Rat(1, 3)
    /\ answer.result[2].article_count = 1

----------------------------------------------------------------------------
(* The service: analyze_news storing its batch, and the read operations    *)
(* and cleanup, one request after the other, on a store that may already   *)
(* hold rows.                                                              *)

\* What store_analysis gives its caller: its except clause turns every
\* exception into False.
store_result_reraised(f) == IF f.ret THEN "True" ELSE "raised"
store_result(f) == IF f.ret THEN "True" ELSE "False"

\* analyze_news after the scoring loop: the return value of store_analysis
\* is dropped, and the scored articles are the response; an exception would
\* be answered with status 500.
AnalyzeNewsReturn(p) ==
    /\ conn[p].pc = "done"
    /\ Ready
    /\ answer' = Answer("analyze_news",
                        [keywords |-> conn[p].keywords, articles |-> conn[p].articles],
                        conn[p].ret,
                        IF store_result(conn[p]) = "raised"
                        THEN [status |-> 500, articles |-> <<>>]
                        ELSE [status |-> 200, articles |-> conn[p].articles])
    /\ conn' = [conn EXCEPT ![p] = IdleFrame]
    /\ UNCHANGED <<db, today, lock, started, log, utc_skew, cvars, avars>>

\* analyze_news reaches store_analysis: requests are served one at a time.
AnalyzeNewsCall(p) ==
    /\ Ready
    /\ StoreCall(p)

\* One earlier call, under a keywords value in capitals.
UpperDb ==
    RunInOrder(EmptyDb, <<EarlierCall("AI", <<Article("t1", "positive", 900)>>, 0)>>)

ServiceDbs == {EmptyDb, UpperDb, SeedDb}
UtcSkews == {-1, 0, 1}

ServiceInit ==
    /\ db \in ServiceDbs
    /\ today = 1
    /\ lock = NoConn
    /\ conn = [p \in Conns |-> IdleFrame]
    /\ started = 0
    /\ log = <<>>
    /\ utc_skew \in UtcSkews
    /\ answer = NoAnswer
    /\ CombinerIdle
    /\ AnalyzerIdle

ServiceNext ==
    \/ AnalyzeNewsCall("c1")
    \/ InsertArticle("c1")
    \/ UpdateSummary("c1")
    \/ Commit("c1")
    \/ StoreFail("c1")
    \/ AnalyzeNewsReturn("c1")
    \/ GetHistory(1)
    \/ \E keyword \in Keywords : GetTrends(keyword, 1)
    \/ \E keywords \in Keywords : GetSummaryStats(keywords, 1)
    \/ GetTopKeywords(1, 5)
    \/ ExportData(NULL, 1, "json")
    \/ CleanupOldData(1)
    \/ Deliver

SpecService == ServiceInit /\ [][ServiceNext]_vars

----------------------------------------------------------------------------
(* Claims about the service.                                               *)

LastCall == log[Len(log)]
\* The rows that were there before the last committed call.
RowsBefore(call) == SubSeq(RowsSeen, 1, Len(RowsSeen) - Len(call.articles))

\* C11: on a store with no row whose keywords contain T, after
\* store_analysis(T, batch) has returned True for a batch of N documents,
\* get_summary_stats(T, 1) returns total_articles = N and positive_count +
\* negative_count + neutral_count = N.
C11_StoreThenStatsRoundTrip ==
    ( /\ Answered("get_summary_stats")
      /\ log # <<>>
      /\ answer.seen = db
      /\ answer.args.days = 1
      /\ answer.args.keywords = LastCall.keywords
      /\ answer.at = LastCall.date
      /\ \A j \in DOMAIN RowsBefore(LastCall) :
            ~ContainsSubstring(RowsBefore(LastCall)[j].keywords, LastCall.keywords) )
    => /\ answer.result.total_articles = Len(LastCall.articles)
       /\ answer.result.positive_count + answer.result.negative_count
            + answer.result.neutral_count = Len(LastCall.articles)

IsPrefix(s1, s2) == Len(s1) <= Len(s2) /\ SubSeq(s2, 1, Len(s1)) = s1
Serves(op) == Ready /\ answer'.op = op

\* C13: over any sequence of store_analysis, get_history, get_trends,
\* get_summary_stats, get_top_keywords and export_data calls every row of
\* analysis_results stays, with its fields unchanged: store_analysis only
\* adds rows, the read operations change neither table, and rows can go
\* only in a cleanup_old_data call.
C13_RowsOnlyAdded ==
    [][ /\ ~Serves("cleanup_old_data") => IsPrefix(db.results, db'.results)
        /\ (\E op \in ReadOps \cup {"export_data"} : Serves(op)) => db' = db ]_vars

\* A row from before is still first after a batch was stored and the
\* history read.
C13_Witness ==
    /\ Answered("get_history")
    /\ log # <<>>
    /\ Len(LastCall.articles) = 2
    /\ Len(db.results) = 3
    /\ db.results[1].keywords = "AI"

\* C14: no storage error escapes. store_analysis returns False on a storage
\* failure and True only when batch and summary are committed; on failure
\* get_history and get_top_keywords return an empty list, get_trends a
\* result with no trends, get_summary_stats an empty result; and
\* analyze_news still answers with the scored documents when
\* store_analysis failed.
C14_StorageErrorsContained ==
    /\ \A p \in Conns :
         conn[p].pc = "done" =>
             /\ store_result(conn[p]) \in {"True", "False"}
             /\ store_result(conn[p]) = "True" <=>
                    \E n \in (conn[p].began + 1)..Len(log) :
                        /\ log[n].conn = p
                        /\ log[n].articles = conn[p].articles
                        /\ \E r \in db.summary : KeyOf(r) = <<log[n].keywords, log[n].date>>
    /\ (answer.op \in {"get_history", "get_top_keywords"} /\ ~answer.reachable)
           => answer.result = <<>>
    /\ (answer.op = "get_trends" /\ ~answer.reachable) => answer.result.trends = <<>>
    /\ (answer.op = "get_summary_stats" /\ ~answer.reachable) => DOMAIN answer.result = {}
    /\ answer.op = "analyze_news" =>
           /\ answer.result.status = 200
           /\ answer.result.articles = answer.args.articles

\* analyze_news answered with its two scored documents although
\* store_analysis had failed on the second.
C14_Witness ==
    /\ answer.op = "analyze_news"
    /\ ~answer.reachable
    /\ answer.result.status = 200
    /\ Len(answer.result.articles) = 2
    /\ db.results = <<>>

----------------------------------------------------------------------------
(* Properties of _preprocess_text, stated on analyze's cleaned_text        *)

\* analyze has computed cleaned_text = self._preprocess_text(text).
Preprocessed == apc # "call" /\ ~TooShort(text)

\* The text after the four substitutions, before the length limit.
SubstitutedText == RemoveSpecial(CollapseWhitespace(RemoveEmails(RemoveUrls(text.runs))))

\* C21: _preprocess_text is idempotent: a second pass over its output
\* changes nothing.
C21_PreprocessIdempotent ==
    Preprocessed => preprocess_text(cleaned) = cleaned

\* Two or more consecutive whitespace characters somewhere in t.
HasWhitespaceRun(t) ==
    \/ \E i \in 1..Len(t) : t[i].c \in WhitespaceChars /\ t[i].n >= 2
    \/ \E i \in 1..(Len(t) - 1) : t[i].c \in WhitespaceChars /\ t[i + 1].c \in WhitespaceChars

\* C22: the output of _preprocess_text has no run of two or more whitespace
\* characters, no leading or trailing whitespace, and only word characters,
\* whitespace and . , ! ? ; : -
C22_OutputWhitespaceCollapsed ==
    Preprocessed =>
        /\ ~HasWhitespaceRun(cleaned)
        /\ cleaned # <<>> =>
               /\ cleaned[1].c \notin WhitespaceChars
               /\ cleaned[Len(cleaned)].c \notin WhitespaceChars
        /\ \A i \in 1..Len(cleaned) :
               cleaned[i].c \in WordChars \cup WhitespaceChars \cup KeptPunctuation

\* The character at position p (from 1) of t, "" past its end.
RECURSIVE CharAt(_, _)
CharAt(t, p) ==
    IF t = <<>> THEN ""
    ELSE IF p <= Head(t).n THEN Head(t).c ELSE CharAt(Tail(t), p - Head(t).n)

\* The positions of a "." among the first 512 characters of t.
DotsWithinLimit(t) == {p \in 1..512 : CharAt(t, p) = "."}

\* C23: the output is at most 512 characters long; a substituted text longer
\* than 512 characters with a "." among its first 512 is cut after the last
\* such "."; one without is cut to its first 512 characters; a text of 512
\* characters or fewer is not cut; the result is trimmed in every case.
C23_TruncatedAtSentenceOrLimit ==
    Preprocessed =>
        LET c == SubstitutedText
            dots == DotsWithinLimit(c)
        IN /\ TLen(cleaned) <= 512
           /\ TLen(c) <= 512 => cleaned = Strip(c)
           /\ (TLen(c) > 512 /\ dots # {}) => cleaned = Strip(Prefix(c, SetMax(dots)))
           /\ (TLen(c) > 512 /\ dots = {}) => cleaned = Strip(Prefix(c, 512))

\* C23 witness: a text longer than 512 characters with two sentence ends
\* among its first 512 characters was cut after the second.
C23_Witness ==
    /\ Preprocessed
    /\ TLen(SubstitutedText) > 512
    /\ Cardinality(DotsWithinLimit(SubstitutedText)) = 2
    /\ TLen(cleaned) = 403
    /\ cleaned[Len(cleaned)] = Run(".", 1)

----------------------------------------------------------------------------
(* The four normalizers, each called on a native result of its classifier. *)

\* The label vocabularies a three-class pipeline reports, and one with a
\* label outside the three classes.
LabelVocabularies ==
    {<<"LABEL_0", "LABEL_1", "LABEL_2">>,
     <<"label_0", "label_1", "label_2">>,
     <<"negative", "neutral", "positive">>,
     <<"Negative", "Neutral", "Positive">>,
     <<"LABEL_0", "Mixed", "LABEL_2">>,
     <<"positive", "negative", "mixed">>}

ScoreTriples ==
    {<<900, 0, 100>>, <<100, 700, 200>>, <<200, 300, 500>>, <<400, 400, 200>>,
     <<333, 333, 333>>, <<0, 0, 0>>, <<0, 500, 500>>}

\* self.models['roberta'](text)[0]: one {label, score} item per class.
RobertaResults ==
    {[i \in 1..3 |-> [label |-> v[i], score |-> Milli(t[i])]] :
         v \in LabelVocabularies, t \in ScoreTriples}

\* self.vader_analyzer.polarity_scores(text)
VaderResults ==
    {VaderRaw(c, t[1], t[2], t[3]) :
         c \in {-1000, -500, -51, -50, -49, 0, 49, 50, 51, 500, 1000},
         t \in {<<0, 0, 0>>, <<0, 1000, 0>>, <<550, 250, 200>>, <<333, 333, 333>>,
                <<0, 300, 700>>, <<1000, 0, 0>>}}

\* TextBlob(text).sentiment.polarity
TextblobResults ==
    {Milli(50 * k) : k \in -20..20} \cup {Milli(-101), Milli(-99), Milli(99), Milli(101)}

NativeResultsOf(m) ==
    CASE m = "roberta" -> RobertaResults
      [] m = "finbert" -> NativeResults
      [] m = "vader" -> VaderResults
      [] m = "textblob" -> TextblobResults

NormalizeInit ==
    /\ apc = "normalize"
    /\ raw \in UNION {{(m :> Gave(v)) : v \in NativeResultsOf(m)} :
                         m \in {"roberta", "finbert", "vader", "textblob"}}
    /\ model_predictions = <<>>
    /\ text = [none |-> TRUE, runs |-> <<>>]
    /\ cleaned = <<>>
    /\ calls = <<>>
    /\ verdict = NoResult
    /\ CombinerIdle
    /\ StoreInit
    /\ QueryIdle

\* predictions[m] = self._normalize_<m>_output(result)
Normalize(m) ==
    /\ apc = "normalize"
    /\ DOMAIN raw = {m}
    /\ model_predictions' = (m :> NormalizerOf(m, raw[m].value))
    /\ apc' = "done"
    /\ UNCHANGED <<text, cleaned, raw, calls, verdict, cvars, svars, qvars>>

NormalizeRoberta == Normalize("roberta")
NormalizeFinbert == Normalize("finbert")
NormalizeVader == Normalize("vader")
NormalizeTextblob == Normalize("textblob")

NormalizeNext ==
    \/ NormalizeRoberta
    \/ NormalizeFinbert
    \/ NormalizeVader
    \/ NormalizeTextblob

SpecNormalize == NormalizeInit /\ [][NormalizeNext]_vars

\* The normalizer of m has returned.
Normalized(m) == apc = "done" /\ DOMAIN raw = {m} /\ DOMAIN model_predictions = {m}

\* C24: _normalize_vader_output gives positive with confidence |compound|
\* from compound 0.05 up, negative with confidence |compound| from -0.05
\* down, neutral with confidence 1 - |compound| in between; its scores are
\* pos, neu and neg over their total, and all 0 when the total is 0.
C24_VaderThresholdsAndScores ==
    Normalized("vader") =>
        LET v == raw["vader"].value
            p == model_predictions["vader"]
            total == RAdd(RAdd(v.pos, v.neu), v.neg)
            score(c) == DictGet(p.scores, c)
        IN /\ RLe(Rat(5, 100), v.compound) =>
                  p.sentiment = "positive" /\ p.confidence = RAbs(v.compound)
           /\ RLe(v.compound, Rat(-5, 100)) =>
                  p.sentiment = "negative" /\ p.confidence = RAbs(v.compound)
           /\ (RLt(Rat(-5, 100), v.compound) /\ RLt(v.compound, Rat(5, 100))) =>
                  p.sentiment = "neutral" /\ p.confidence = RSub(ROne, RAbs(v.compound))
           /\ DictKeys(p.scores) = {"positive", "neutral", "negative"}
           /\ IF total = RZero
              THEN \A c \in DictKeys(p.scores) : score(c) = RZero
              ELSE /\ RMul(score("positive"), total) = v.pos
                   /\ RMul(score("neutral"), total) = v.neu
                   /\ RMul(score("negative"), total) = v.neg

\* C24 witness: a compound of exactly -0.05 was called negative with
\* confidence 0.05, over native proportions that sum to 0.999.
C24_Witness ==
    /\ Normalized("vader")
    /\ raw["vader"].value = VaderRaw(-50, 333, 333, 333)
    /\ model_predictions["vader"].sentiment = "negative"
    /\ model_predictions["vader"].confidence = Rat(5, 100)
    /\ DictGet(model_predictions["vader"].scores, "neutral") = Rat(1, 3)

\* C25: _normalize_textblob_output gives positive above 0.1, negative below
\* -0.1 and neutral otherwise (at exactly 0.1 and -0.1 too), with confidence
\* min(|polarity|, 1) when not neutral and 1 - |polarity| when neutral, and
\* scores positive = max(0, polarity), negative = max(0, -polarity),
\* neutral = 1 - positive - negative, each in [0, 1].
C25_TextblobThresholdsAndScores ==
    Normalized("textblob") =>
        LET polarity == raw["textblob"].value
            p == model_predictions["textblob"]
            score(c) == DictGet(p.scores, c)
            magnitude == IF RLt(polarity, RZero) THEN RNeg(polarity) ELSE polarity
        IN /\ p.sentiment = (IF RLt(Rat(1, 10), polarity) THEN "positive"
                             ELSE IF RLt(polarity, Rat(-1, 10)) THEN "negative"
                             ELSE "neutral")
           /\ polarity \in {Rat(1, 10), Rat(-1, 10)} => p.sentiment = "neutral"
           /\ p.confidence = (IF p.sentiment = "neutral" THEN RSub(ROne, magnitude)
                              ELSE IF RLt(ROne, magnitude) THEN ROne ELSE magnitude)
           /\ DictKeys(p.scores) = {"positive", "neutral", "negative"}
           /\ score("positive") = (IF RLt(RZero, polarity) THEN polarity ELSE RZero)
           /\ score("negative") = (IF RLt(polarity, RZero) THEN RNeg(polarity) ELSE RZero)
           /\ RAdd(RAdd(score("positive"), score("negative")), score("neutral")) = ROne
           /\ \A c \in DictKeys(p.scores) : RLe(RZero, score(c)) /\ RLe(score(c), ROne)

\* C25 witness: a polarity of exactly 0.1 was called neutral with confidence
\* 0.9.
C25_Witness ==
    /\ Normalized("textblob")
    /\ raw["textblob"].value = Rat(1, 10)
    /\ model_predictions["textblob"].sentiment = "neutral"
    /\ model_predictions["textblob"].confidence = Rat(9, 10)

\* The name the claim gives a native label: the class of label_0, label_1
\* and label_2, the lower-cased label otherwise.
ClaimedLabel(label) ==
    CASE label \in {"LABEL_0", "label_0", "Negative", "negative"} -> "negative"
      [] label \in {"LABEL_1", "label_1", "Neutral", "neutral"} -> "neutral"
      [] label \in {"LABEL_2", "label_2", "Positive", "positive"} -> "positive"
      [] label \in {"Mixed", "mixed"} -> "mixed"

\* C26: _normalize_roberta_output returns a verdict for every label: the
\* scores of label_0, label_1, label_2 under negative, neutral, positive,
\* the score of any other label under its lower-cased name, the sentiment a
\* label of highest score and the confidence that score.
C26_RobertaLabelsMapped ==
    /\ (apc = "done" /\ DOMAIN raw = {"roberta"}) => DOMAIN model_predictions = {"roberta"}
    /\ Normalized("roberta") =>
        LET result == raw["roberta"].value
            p == model_predictions["roberta"]
        IN /\ DictKeys(p.scores) = {ClaimedLabel(result[i].label) : i \in DOMAIN result}
           /\ \A i \in DOMAIN result :
                  DictGet(p.scores, ClaimedLabel(result[i].label)) = result[i].score
           /\ p.sentiment \in DictKeys(p.scores)
           /\ p.confidence = DictGet(p.scores, p.sentiment)
           /\ \A i \in DOMAIN result : RLe(result[i].score, p.confidence)

\* C26 witness: LABEL_0 was reported as negative, a label outside the
\* mapping was kept as "mixed" and, holding the highest score, became the
\* sentiment.
C26_Witness ==
    /\ Normalized("roberta")
    /\ raw["roberta"].value[1].label = "LABEL_0"
    /\ raw["roberta"].value[2].label = "Mixed"
    /\ DictKeys(model_predictions["roberta"].scores) = {"negative", "mixed", "positive"}
    /\ model_predictions["roberta"].sentiment = "mixed"
    /\ model_predictions["roberta"].confidence = Milli(700)

----------------------------------------------------------------------------
(* Further properties of _ensemble_combine and of analyze's verdict        *)

\* C27: on every non-empty mapping, one whose scores carry a label outside
\* positive, negative, neutral included, _ensemble_combine returns without
\* raising, its sentiment is one of the three classes and its combined
\* scores are keyed by exactly the three classes.
C27_CombineNeverRaises ==
    (cpc = "done" /\ cpreds # <<>>) =>
        /\ cres.kind = "ok"
        /\ cres.sentiment \in ClassSet
        /\ DOMAIN cres.scores = ClassSet

\* Every score of every adapter verdict is in [0, 1] and each verdict's
\* scores sum to at most 1.
ScoresWithinUnit(predictions) ==
    \A m \in DOMAIN predictions :
        /\ \A i \in DOMAIN predictions[m].scores :
               /\ RLe(RZero, predictions[m].scores[i].v)
               /\ RLe(predictions[m].scores[i].v, ROne)
        /\ RLe(DictSum(predictions[m].scores), ROne)

\* C28: every verdict analyze returns (too short, empty ensemble, combined
\* with or without the override), the adapters' scores being in [0, 1] and
\* summing to at most 1, has a confidence in [0.5, 1], and one of at least
\* 0.6 when its sentiment is positive or negative.
C28_ConfidenceRange ==
    (apc = "done" /\ verdict.kind = "ok" /\ ScoresWithinUnit(model_predictions)) =>
        /\ RLe(Rat(1, 2), verdict.confidence)
        /\ RLe(verdict.confidence, ROne)
        /\ verdict.sentiment \in {"positive", "negative"} =>
               RLe(Rat(6, 10), verdict.confidence)

\* C28 witness: both classifiers answered, the largest combined score was a
\* positive one below 0.6 with neutral below 0.5, and analyze returned
\* neutral with confidence 0.5.
C28_Witness ==
    /\ apc = "done"
    /\ verdict.kind = "ok"
    /\ DOMAIN model_predictions = {"vader", "textblob"}
    /\ ScoresWithinUnit(model_predictions)
    /\ RLt(verdict.scores["neutral"], verdict.scores["positive"])
    /\ RLt(verdict.scores["neutral"], Rat(1, 2))
    /\ verdict.sentiment = "neutral"
    /\ verdict.confidence = Rat(1, 2)

\* Two classes share the largest combined score.
TiedAtTop(scores) ==
    \E a, b \in ClassSet :
        /\ a # b
        /\ scores[a] = scores[b]
        /\ \A c \in ClassSet : RLe(scores[c], scores[a])

\* Per-model scores are non-negative and sum to at most 1.
ScoresBounded(predictions) ==
    \A m \in DOMAIN predictions :
        /\ \A i \in DOMAIN predictions[m].scores : RLe(RZero, predictions[m].scores[i].v)
        /\ RLe(DictSum(predictions[m].scores), ROne)

\* C29: on a non-empty mapping of non-negative scores summing to at most 1
\* per model, two classes tying for the largest combined score give
\* 'neutral', whichever of them max() would have picked; the verdict is a
\* function of the mapping.
C29_TieGivesNeutral ==
    /\ (Returned /\ ScoresBounded(cpreds) /\ cres.kind = "ok" /\ TiedAtTop(cres.scores)) =>
           cres.sentiment = "neutral"
    /\ cpc = "done" => cres = ensemble_combine(cpreds)

\* C29 witness: positive and negative tie for the largest combined score of
\* two models, max() picks positive, and the verdict is neutral.
C29_Witness ==
    /\ Returned
    /\ ScoresBounded(cpreds)
    /\ Cardinality(DOMAIN cpreds) = 2
    /\ cres.kind = "ok"
    /\ cres.scores["positive"] = cres.scores["negative"]
    /\ RLt(cres.scores["neutral"], cres.scores["positive"])
    /\ ArgMaxClass(cres.scores) = "positive"
    /\ cres.sentiment = "neutral"

----------------------------------------------------------------------------
(* get_trends against get_summary_stats on one store state                 *)

\* The sum of one count over a list of trend points.
RECURSIVE SumOverPoints(_, _)
SumOverPoints(points, field) ==
    IF points = <<>> THEN 0 ELSE Head(points)[field] + SumOverPoints(Tail(points), field)

\* The trend points' sums are the counts of the statistics.
TrendsAgreeWithStats(trends, stats) ==
    /\ SumOverPoints(trends.trends, "total") = stats.total_articles
    /\ SumOverPoints(trends.trends, "positive") = stats.positive_count
    /\ SumOverPoints(trends.trends, "negative") = stats.negative_count
    /\ SumOverPoints(trends.trends, "neutral") = stats.neutral_count

\* C30: on one store state, for every keyword k and window days, the total,
\* positive, negative and neutral of the points of get_trends(k, days) sum
\* to total_articles, positive_count, negative_count and neutral_count of
\* get_summary_stats(k, days).
C30_TrendsSumToStats ==
    /\ (Answered("get_trends") /\ answer.at = today) =>
           TrendsAgreeWithStats(answer.result,
               get_summary_stats(answer.seen, answer.args.keyword, answer.args.days))
    /\ (Answered("get_summary_stats") /\ answer.at = today /\ answer.args.keywords # NULL) =>
           TrendsAgreeWithStats(
               get_trends(answer.seen, answer.args.keywords, answer.args.days),
               answer.result)

\* C30 witness: a keyword that one of three rows of the window matches: one
\* trend point, and statistics over that one row.
C30_Witness ==
    /\ Answered("get_trends")
    /\ answer.at = today
    /\ answer.args.keyword = "news"
    /\ Cardinality(Qualifying) = 3
    /\ Len(Points) = 1
    /\ SumOverPoints(Points, "total") = 1
    /\ get_summary_stats(answer.seen, "news", answer.args.days).neutral_count = 1

====
